---- MODULE Spec2Model ----
(***************************************************************************)
(* Model of the UDDL query <-> ParticipantPath conversion:                 *)
(*   participant_path_parser.py  (path data model, parse, __str__)         *)
(*   query_parser.py             (query AST, __str__, tokenizer, parser)   *)
(*   query_path_conversion.py    (query2path, path2query,                  *)
(*                                _reconstruct_alias_map)                  *)
(* Python values are modelled as follows.  Strings are TLA+ strings, read  *)
(* character by character with SubSeq.  Lists are sequences.  A dict is a  *)
(* sequence of entries [k, v] in insertion order.  A call either returns   *)
(* (status "ok") or raises (status = the exception's name).               *)
(***************************************************************************)
EXTENDS Integers, Sequences, FiniteSets, TLC

VARIABLES
    pc,               \* the step the running pipeline has reached
    ppText,           \* ParticipantPath text (input, or printed form)
    ppPath,           \* outcome of ParticipantPath.parse, or the input path
    ppBack,           \* outcome of the second leg of a parse/print round trip
    ppCompare,        \* a ParticipantPath object and the outcome of p == it
    qText,            \* query text handed to get_ast
    qAst,             \* outcome of get_ast(qText)
    qBack,            \* outcome of get_ast(str(ast))
    model,            \* schema facts (list of UddlTuple)
    query,            \* QueryStatement handed to query2path
    compiled,         \* outcome of query2path
    frame,            \* locals of a call that runs step by step
    partial_map,      \* hand-seeded alias map (--and-join / test fixtures)
    alias_map,        \* alias map handed to path2query
    projected_paths,  \* terminal paths handed to path2query
    statement,        \* outcome of path2query
    recompiled        \* outcome of query2path on path2query's statement

vars == <<pc, ppText, ppPath, ppBack, ppCompare, qText, qAst, qBack, model,
          query, compiled, frame, partial_map, alias_map, projected_paths, statement,
          recompiled>>

(* Python's None, for Optional[str] fields. *)
None == "None"

(* `x or y` / `if x` on an Optional[str]: None and "" are falsy. *)
Truthy(x) == x # None /\ x # ""

Ok(v) == [status |-> "ok", value |-> v]
Raise(e) == [status |-> e]
IsOk(r) == r.status = "ok"

(* Value of a variable that the running pipeline does not use. *)
Unused == [status |-> "unused"]

Min(a, b) == IF a <= b THEN a ELSE b

(***************************************************************************)
(* Characters.                                                             *)
(***************************************************************************)
LowerLetters ==
    {"a","b","c","d","e","f","g","h","i","j","k","l","m",
     "n","o","p","q","r","s","t","u","v","w","x","y","z"}

UpperLetters ==
    {"A","B","C","D","E","F","G","H","I","J","K","L","M",
     "N","O","P","Q","R","S","T","U","V","W","X","Y","Z"}

Digits == {"0","1","2","3","4","5","6","7","8","9"}

(* [a-zA-Z_] *)
IsIdentStart(c) == c \in LowerLetters \/ c \in UpperLetters \/ c = "_"

(* [a-zA-Z0-9_], which is also \w on the ASCII texts modelled here *)
IsIdentChar(c) == IsIdentStart(c) \/ c \in Digits

(* text[i-1] in Python; positions of the model are 1-based *)
CharAt(text, i) == SubSeq(text, i, i)

(* text.startswith(s, i-1) *)
StartsWith(text, s, i) ==
    /\ i + Len(s) - 1 <= Len(text)
    /\ SubSeq(text, i, i + Len(s) - 1) = s

(* Greedy [a-zA-Z0-9_]* from position i: the position after the run. *)
RECURSIVE IdentRunEnd(_, _)
IdentRunEnd(text, i) ==
    IF i <= Len(text) /\ IsIdentChar(CharAt(text, i))
    THEN IdentRunEnd(text, i + 1)
    ELSE i

(* identifier_pattern matched at position i: the position after the match, *)
(* or 0 when there is no match.                                            *)
MatchIdentifier(text, i) ==
    IF i <= Len(text) /\ IsIdentStart(CharAt(text, i))
    THEN IdentRunEnd(text, i + 1)
    ELSE 0

(***************************************************************************)
(* participant_path_parser.py                                              *)
(***************************************************************************)
EntityResolution(rolename) ==
    [kind |-> "EntityResolution", rolename |-> rolename]

AssociationResolution(rolename, association_name) ==
    [kind |-> "AssociationResolution", rolename |-> rolename,
     association_name |-> association_name]

IsEntityResolution(res) == res.kind = "EntityResolution"
IsAssociationResolution(res) == res.kind = "AssociationResolution"

ParticipantPath(start_type, resolutions) ==
    [start_type |-> start_type, resolutions |-> resolutions]

EntityResolution_str(res) == "." \o res.rolename

AssociationResolution_str_swapped(res) ==
    "->" \o res.association_name \o "[" \o res.rolename \o "]"

AssociationResolution_str(res) ==
    "->" \o res.rolename \o "[" \o res.association_name \o "]"

Resolution_str(res) ==
    IF IsAssociationResolution(res)
    THEN AssociationResolution_str(res)
    ELSE EntityResolution_str(res)

RECURSIVE JoinResolutions(_)
JoinResolutions(resolutions) ==
    IF resolutions = <<>> THEN ""
    ELSE Resolution_str(Head(resolutions)) \o JoinResolutions(Tail(resolutions))

ParticipantPath_str(p) == p.start_type \o JoinResolutions(p.resolutions)

(* A ParticipantPath object: the identity Python gives it and its fields *)
PathObject(id, path_) == [id |-> id, path |-> path_]

(* self == other on ParticipantPath objects.  The class defines no __eq__  *)
(* (it is a plain class, not a dataclass), so == is object.__eq__: true    *)
(* only of one and the same object.                                       *)
ParticipantPath_eq(self, other) == self.id = other.id

(* assoc_re.match(text, pos): "->" rolename "[" association_name "]".      *)
(* [matched, rolename, association_name, end].                             *)
MatchAssoc(text, i) ==
    LET e1 == MatchIdentifier(text, i + 2)
        e2 == IF e1 # 0 /\ StartsWith(text, "[", e1)
              THEN MatchIdentifier(text, e1 + 1) ELSE 0
    IN  IF StartsWith(text, "->", i) /\ e1 # 0 /\ e2 # 0
           /\ StartsWith(text, "]", e2)
        THEN [matched |-> TRUE,
              rolename |-> SubSeq(text, i + 2, e1 - 1),
              association_name |-> SubSeq(text, e1 + 1, e2 - 1),
              end |-> e2 + 1]
        ELSE [matched |-> FALSE]

(* entity_re.match(text, pos): "." rolename. *)
MatchEntity(text, i) ==
    LET e1 == MatchIdentifier(text, i + 1)
    IN  IF StartsWith(text, ".", i) /\ e1 # 0
        THEN [matched |-> TRUE, rolename |-> SubSeq(text, i + 1, e1 - 1),
              end |-> e1]
        ELSE [matched |-> FALSE]

(* The `while pos < n` loop of ParticipantPath.parse. *)
RECURSIVE ParseResolutions(_, _, _)
ParseResolutions(text, i, resolutions) ==
    IF i > Len(text) THEN Ok(resolutions)
    ELSE IF StartsWith(text, "->", i)
    THEN LET m == MatchAssoc(text, i)
         IN  IF ~m.matched THEN Raise("ValueError")
             ELSE ParseResolutions(text, m.end,
                      Append(resolutions,
                             AssociationResolution(m.rolename, m.association_name)))
    ELSE IF StartsWith(text, ".", i)
    THEN LET m == MatchEntity(text, i)
         IN  IF ~m.matched THEN Raise("ValueError")
             ELSE ParseResolutions(text, m.end,
                      Append(resolutions, EntityResolution(m.rolename)))
    ELSE Raise("ValueError")

ParticipantPath_parse(text) ==
    LET e0 == MatchIdentifier(text, 1)
    IN  IF e0 = 0 THEN Raise("ValueError")
        ELSE LET r == ParseResolutions(text, e0, <<>>)
             IN  IF IsOk(r)
                 THEN Ok(ParticipantPath(SubSeq(text, 1, e0 - 1), r.value))
                 ELSE r

(***************************************************************************)
(* query_parser.py: the AST and its printed form (__str__).                *)
(***************************************************************************)
Reference(entity, characteristic) ==
    [entity |-> entity, characteristic |-> characteristic]

(* Optional[Reference] = None (the right side of a unary Equivalence) *)
NoReference == [none |-> TRUE]

IsNoReference(ref) == ref = NoReference

ProjectedCharacteristic(reference, alias) ==
    [type |-> "ProjectedCharacteristic", reference |-> reference, alias |-> alias]

AllCharacteristics == [type |-> "AllCharacteristics"]

EntityWildcard(entity) == [type |-> "EntityWildcard", entity |-> entity]

Entity(name, alias) == [name |-> name, alias |-> alias]

Equivalence(left, right) == [left |-> left, right |-> right]

Join(target, on) == [target |-> target, on |-> on]

FromClause(entities, joins) == [entities |-> entities, joins |-> joins]

QueryStatement(projections, from_clause, qualifier) ==
    [projections |-> projections, from_clause |-> from_clause,
     qualifier |-> qualifier]

(* Reference.__str__; a Reference with neither part has no printed form   *)
(* (__str__ returns None) and is given none here.                          *)
Reference_str(ref) ==
    CASE Truthy(ref.entity) /\ Truthy(ref.characteristic)
             -> ref.entity \o "." \o ref.characteristic
      [] Truthy(ref.entity) /\ ~Truthy(ref.characteristic) -> ref.entity
      [] ~Truthy(ref.entity) /\ ref.characteristic # None -> ref.characteristic

ProjectedCharacteristic_str(proj) ==
    Reference_str(proj.reference)
        \o (IF Truthy(proj.alias) THEN " AS " \o proj.alias ELSE "")

EntityWildcard_str(proj) == proj.entity \o "*"

Projection_str(proj) ==
    CASE proj.type = "ProjectedCharacteristic" -> ProjectedCharacteristic_str(proj)
      [] proj.type = "AllCharacteristics" -> "*"
      [] proj.type = "EntityWildcard" -> EntityWildcard_str(proj)

Entity_str(e) ==
    e.name \o (IF Truthy(e.alias) THEN " AS " \o e.alias ELSE "")

Equivalence_str(e) ==
    IF ~IsNoReference(e.right)
    THEN Reference_str(e.left) \o " = " \o Reference_str(e.right)
    ELSE Reference_str(e.left)

(* sep.join(strs) *)
RECURSIVE JoinStrings(_, _)
JoinStrings(sep, strs) ==
    IF strs = <<>> THEN ""
    ELSE IF Len(strs) = 1 THEN strs[1]
    ELSE strs[1] \o sep \o JoinStrings(sep, Tail(strs))

Join_str(j) ==
    "JOIN " \o Entity_str(j.target) \o " ON "
        \o JoinStrings(" AND ", [i \in 1..Len(j.on) |-> Equivalence_str(j.on[i])])

FromClause_str(f) ==
    "FROM "
        \o JoinStrings(", ", [i \in 1..Len(f.entities) |-> Entity_str(f.entities[i])])
        \o " "
        \o JoinStrings(" ", [i \in 1..Len(f.joins) |-> Join_str(f.joins[i])])

QueryStatement_str(q) ==
    "SELECT "
        \o JoinStrings(", ", [i \in 1..Len(q.projections) |->
                                  Projection_str(q.projections[i])])
        \o " " \o FromClause_str(q.from_clause) \o " "
        \o (IF Truthy(q.qualifier) THEN q.qualifier ELSE "")

(***************************************************************************)
(* query_parser.py: UDDLQueryParser._tokenize                              *)
(***************************************************************************)
LowerSeq == <<"a","b","c","d","e","f","g","h","i","j","k","l","m",
              "n","o","p","q","r","s","t","u","v","w","x","y","z">>

UpperSeq == <<"A","B","C","D","E","F","G","H","I","J","K","L","M",
              "N","O","P","Q","R","S","T","U","V","W","X","Y","Z">>

(* re.IGNORECASE: characters are compared after case folding *)
UpperChar(c) ==
    IF c \in LowerLetters
    THEN UpperSeq[CHOOSE i \in 1..Len(LowerSeq) : LowerSeq[i] = c]
    ELSE c

RECURSIVE UpperStr(_)
UpperStr(s) ==
    IF Len(s) = 0 THEN ""
    ELSE UpperChar(CharAt(s, 1)) \o UpperStr(SubSeq(s, 2, Len(s)))

(* token_specification's keywords, in its order *)
Keywords == <<"SELECT", "FROM", "JOIN", "ON", "AND", "AS", "ALL">>

IsKeyword(w) == \E k \in 1..Len(Keywords) : Keywords[k] = w

(* \b before position i, where text[i] is a word character *)
WordBoundaryBefore(text, i) == i = 1 \/ ~IsIdentChar(CharAt(text, i - 1))

Token(kind, value) == [kind |-> kind, value |-> value]

(* One step of re.finditer(tok_regex, text, re.IGNORECASE) at position i:  *)
(* the first alternative of tok_regex that matches there, with the         *)
(* position after the match; kind "NOMATCH" when none does (finditer then  *)
(* resumes one character further on).                                      *)
MatchToken(text, i) ==
    LET c == CharAt(text, i)
        wordEnd == IdentRunEnd(text, i)
        word == SubSeq(text, i, wordEnd - 1)
    IN  IF IsIdentChar(c) /\ WordBoundaryBefore(text, i)
           /\ IsKeyword(UpperStr(word))
        THEN [kind |-> UpperStr(word), value |-> word, end |-> wordEnd]
        ELSE IF IsIdentStart(c)
        THEN [kind |-> "ID", value |-> word, end |-> wordEnd]
        ELSE IF c = "*" THEN [kind |-> "ASTERISK", value |-> c, end |-> i + 1]
        ELSE IF c = "." THEN [kind |-> "PERIOD", value |-> c, end |-> i + 1]
        ELSE IF c = "," THEN [kind |-> "COMMA", value |-> c, end |-> i + 1]
        ELSE IF c = "=" THEN [kind |-> "EQUALS", value |-> c, end |-> i + 1]
        ELSE IF c \in {" ", "\t", "\n"}
        THEN [kind |-> "SKIP", value |-> c, end |-> i + 1]
        ELSE [kind |-> "NOMATCH", value |-> c, end |-> i + 1]

RECURSIVE TokenizeFrom(_, _, _)
TokenizeFrom(text, i, tokens) ==
    IF i > Len(text) THEN tokens
    ELSE LET m == MatchToken(text, i)
         IN  TokenizeFrom(text, m.end,
                 IF m.kind \in {"SKIP", "NOMATCH"} THEN tokens
                 ELSE Append(tokens, Token(m.kind, m.value)))

_tokenize(text) == TokenizeFrom(text, 1, <<>>)

(***************************************************************************)
(* query_parser.py: UDDLQueryParser, a recursive-descent parser over the   *)
(* token list.  pos is the 1-based index of the next token.  A parse       *)
(* method returns [status "ok", pos, value] or raises SyntaxError.         *)
(***************************************************************************)
Parsed(pos, value) == [status |-> "ok", pos |-> pos, value |-> value]

_peek(tokens, pos) ==
    IF pos <= Len(tokens) THEN tokens[pos] ELSE Token(None, None)

_consume(tokens, pos, expected_kind) ==
    LET t == _peek(tokens, pos)
    IN  IF t.kind # expected_kind THEN Raise("SyntaxError")
        ELSE Parsed(pos + 1, t.value)

(* The value of a one-element set: TheOnly({e : x \in {v}}) is e with x   *)
(* bound to v, the way a local variable of a parse method holds a result. *)
TheOnly(S) == CHOOSE v \in S : TRUE

(* The optional alias after a projection or an entity: [AS] ID *)
ParseOptionalAlias(tokens, pos) ==
    IF _peek(tokens, pos).kind = "AS"
    THEN _consume(tokens, pos + 1, "ID")
    ELSE IF _peek(tokens, pos).kind = "ID"
    THEN _consume(tokens, pos, "ID")
    ELSE Parsed(pos, None)

parse_char_ref(tokens, pos) ==
    TheOnly({
        IF ~IsOk(first) THEN first
        ELSE IF _peek(tokens, first.pos).kind = "PERIOD"
        THEN TheOnly({
                 IF ~IsOk(second) THEN second
                 ELSE Parsed(second.pos, Reference(first.value, second.value))
                 : second \in {_consume(tokens, first.pos + 1, "ID")}})
        ELSE Parsed(first.pos, Reference(None, first.value))
        : first \in {_consume(tokens, pos, "ID")}})

parse_equivalence_expression(tokens, pos) ==
    TheOnly({
        IF ~IsOk(left) THEN left
        ELSE IF _peek(tokens, left.pos).kind = "EQUALS"
        THEN TheOnly({
                 IF ~IsOk(right) THEN right
                 ELSE Parsed(right.pos, Equivalence(left.value, right.value))
                 : right \in {parse_char_ref(tokens, left.pos + 1)}})
        ELSE Parsed(left.pos, Equivalence(left.value, NoReference))
        : left \in {parse_char_ref(tokens, pos)}})

(* The `while True` loop of parse_join_criteria *)
RECURSIVE JoinCriteriaLoop(_, _, _)
JoinCriteriaLoop(tokens, pos, conditions) ==
    TheOnly({
        IF ~IsOk(e) THEN e
        ELSE IF _peek(tokens, e.pos).kind = "AND"
        THEN JoinCriteriaLoop(tokens, e.pos + 1, Append(conditions, e.value))
        ELSE Parsed(e.pos, Append(conditions, e.value))
        : e \in {parse_equivalence_expression(tokens, pos)}})

parse_join_criteria(tokens, pos) == JoinCriteriaLoop(tokens, pos, <<>>)

parse_selected_entity(tokens, pos) ==
    TheOnly({
        IF ~IsOk(entity_type) THEN entity_type
        ELSE TheOnly({
                 IF ~IsOk(alias) THEN alias
                 ELSE Parsed(alias.pos, Entity(entity_type.value, alias.value))
                 : alias \in {ParseOptionalAlias(tokens, entity_type.pos)}})
        : entity_type \in {_consume(tokens, pos, "ID")}})

(* parse_join_expression once JOIN and the entity are consumed *)
JoinCriteria(tokens, entity) ==
    TheOnly({
        IF ~IsOk(on) THEN on
        ELSE TheOnly({
                 IF ~IsOk(criteria) THEN criteria
                 ELSE Parsed(criteria.pos, Join(entity.value, criteria.value))
                 : criteria \in {parse_join_criteria(tokens, on.pos)}})
        : on \in {_consume(tokens, entity.pos, "ON")}})

parse_join_expression(tokens, pos) ==
    TheOnly({
        IF ~IsOk(kw) THEN kw
        ELSE TheOnly({
                 IF ~IsOk(entity) THEN entity
                 ELSE JoinCriteria(tokens, entity)
                 : entity \in {parse_selected_entity(tokens, kw.pos)}})
        : kw \in {_consume(tokens, pos, "JOIN")}})

(* The `while self._peek()[0] == 'JOIN'` loop of parse_from_clause *)
RECURSIVE JoinsLoop(_, _, _)
JoinsLoop(tokens, pos, joins) ==
    IF _peek(tokens, pos).kind = "JOIN"
    THEN TheOnly({
             IF ~IsOk(j) THEN j
             ELSE JoinsLoop(tokens, j.pos, Append(joins, j.value))
             : j \in {parse_join_expression(tokens, pos)}})
    ELSE Parsed(pos, joins)

parse_from_clause(tokens, pos) ==
    TheOnly({
        IF ~IsOk(kw) THEN kw
        ELSE TheOnly({
                 IF ~IsOk(entity) THEN entity
                 ELSE TheOnly({
                          IF ~IsOk(joins) THEN joins
                          ELSE Parsed(joins.pos,
                                      FromClause(<<entity.value>>, joins.value))
                          : joins \in {JoinsLoop(tokens, entity.pos, <<>>)}})
                 : entity \in {parse_selected_entity(tokens, kw.pos)}})
        : kw \in {_consume(tokens, pos, "FROM")}})

(* parse_projected_expression once the reference is built: the alias *)
ProjectionAlias(tokens, ref) ==
    TheOnly({
        IF ~IsOk(alias) THEN alias
        ELSE Parsed(alias.pos, ProjectedCharacteristic(ref.value, alias.value))
        : alias \in {ParseOptionalAlias(tokens, ref.pos)}})

parse_projected_expression(tokens, pos) ==
    TheOnly({
        IF ~IsOk(first_id) THEN first_id
        ELSE IF _peek(tokens, first_id.pos).kind = "PERIOD"
        THEN IF _peek(tokens, first_id.pos + 1).kind = "ASTERISK"
             THEN Parsed(first_id.pos + 2, EntityWildcard(first_id.value))
             ELSE TheOnly({
                      IF ~IsOk(char_name) THEN char_name
                      ELSE ProjectionAlias(tokens,
                               Parsed(char_name.pos,
                                      Reference(first_id.value, char_name.value)))
                      : char_name \in {_consume(tokens, first_id.pos + 1, "ID")}})
        ELSE ProjectionAlias(tokens,
                 Parsed(first_id.pos, Reference(None, first_id.value)))
        : first_id \in {_consume(tokens, pos, "ID")}})

(* The `while True` loop of parse_projected_list *)
RECURSIVE ProjectedListLoop(_, _, _)
ProjectedListLoop(tokens, pos, projections) ==
    TheOnly({
        IF ~IsOk(e) THEN e
        ELSE IF _peek(tokens, e.pos).kind = "COMMA"
        THEN ProjectedListLoop(tokens, e.pos + 1, Append(projections, e.value))
        ELSE Parsed(e.pos, Append(projections, e.value))
        : e \in {parse_projected_expression(tokens, pos)}})

parse_projected_list(tokens, pos) ==
    IF _peek(tokens, pos).kind = "ASTERISK"
    THEN Parsed(pos + 1, <<AllCharacteristics>>)
    ELSE ProjectedListLoop(tokens, pos, <<>>)

(* parse_query_statement once SELECT and the optional ALL are consumed *)
StatementBody(tokens, qualifier) ==
    TheOnly({
        IF ~IsOk(projected) THEN projected
        ELSE TheOnly({
                 IF ~IsOk(from_clause) THEN from_clause
                 ELSE Parsed(from_clause.pos,
                             QueryStatement(projected.value, from_clause.value,
                                            qualifier.value))
                 : from_clause \in {parse_from_clause(tokens, projected.pos)}})
        : projected \in {parse_projected_list(tokens, qualifier.pos)}})

parse_query_statement(tokens) ==
    IF ~IsOk(_consume(tokens, 1, "SELECT")) THEN Raise("SyntaxError")
    ELSE IF _peek(tokens, 2).kind = "ALL"
    THEN StatementBody(tokens, _consume(tokens, 2, "ALL"))
    ELSE StatementBody(tokens, Parsed(2, None))

(* get_ast(query_string): the AST, or SyntaxError *)
get_ast(query_string) ==
    TheOnly({IF IsOk(r) THEN Ok(r.value) ELSE Raise("SyntaxError")
             : r \in {parse_query_statement(_tokenize(query_string))}})

(***************************************************************************)
(* Python containers.                                                      *)
(***************************************************************************)
(* A dict, in insertion order: a sequence of entries [k, v]. *)
HasKey(d, k) == \E i \in 1..Len(d) : d[i].k = k

Get(d, k) == d[CHOOSE i \in 1..Len(d) : d[i].k = k].v

(* d[k] = v: an existing key keeps its place, a new key goes last *)
Put(d, k, v) ==
    IF HasKey(d, k)
    THEN [i \in 1..Len(d) |-> IF d[i].k = k THEN [k |-> k, v |-> v] ELSE d[i]]
    ELSE Append(d, [k |-> k, v |-> v])

Keys(d) == [i \in 1..Len(d) |-> d[i].k]

KeySet(d) == {d[i].k : i \in 1..Len(d)}

Range(seq) == {seq[i] : i \in 1..Len(seq)}

(* Code-point order of the characters of identifiers *)
CharOrder == <<"0","1","2","3","4","5","6","7","8","9",
               "A","B","C","D","E","F","G","H","I","J","K","L","M",
               "N","O","P","Q","R","S","T","U","V","W","X","Y","Z",
               "_",
               "a","b","c","d","e","f","g","h","i","j","k","l","m",
               "n","o","p","q","r","s","t","u","v","w","x","y","z">>

Ord(c) == CHOOSE i \in 1..Len(CharOrder) : CharOrder[i] = c

(* a < b on Python strings *)
RECURSIVE StrLess(_, _)
StrLess(a, b) ==
    IF Len(b) = 0 THEN FALSE
    ELSE IF Len(a) = 0 THEN TRUE
    ELSE IF CharAt(a, 1) # CharAt(b, 1) THEN Ord(CharAt(a, 1)) < Ord(CharAt(b, 1))
    ELSE StrLess(SubSeq(a, 2, Len(a)), SubSeq(b, 2, Len(b)))

(* sorted(list(S)) for a set S of strings *)
RECURSIVE SortedStrings(_)
SortedStrings(S) ==
    IF S = {} THEN <<>>
    ELSE LET least == CHOOSE x \in S : \A y \in S \ {x} : StrLess(x, y)
         IN  <<least>> \o SortedStrings(S \ {least})

(***************************************************************************)
(* tuple.py: UddlTuple (the schema facts).  A model is a list of them; the *)
(* empty list also stands for model=None, which the code treats alike      *)
(* (`if not model`, `and model`).                                          *)
(***************************************************************************)
UddlTuple(subject, predicate, object, rolename) ==
    [subject |-> subject, predicate |-> predicate, object |-> object,
     rolename |-> rolename]

(***************************************************************************)
(* query_path_conversion.py: query2path                                    *)
(***************************************************************************)
get_model_attributes(model_, type_name) ==
    SortedStrings({model_[i].rolename : i \in
        {j \in 1..Len(model_) : /\ model_[j].subject = type_name
                                /\ model_[j].predicate = "composes"}})

(* An EntityResolution constructor that takes the second argument and     *)
(* drops it                                                                *)
EntityResolution_accepting_target_type(rolename, target_type) ==
    Ok(EntityResolution(rolename))

(* EntityResolution(rolename, target_type), as query2path calls it: the    *)
(* dataclass of participant_path_parser.py has the one field rolename, so  *)
(* its __init__ refuses the second positional argument.                    *)
EntityResolution_with_target_type(rolename, target_type) == Raise("TypeError")

is_identity(ref) ==
    /\ ~IsNoReference(ref)
    /\ (ref.characteristic = None \/ ref.characteristic = "")

(* The if/elif chain over one join condition: the source alias and the     *)
(* outcome of constructing found_res; no shape matched (found_res stays    *)
(* None) is matched = FALSE.                                               *)
ClassifyCondition(alias_map_, root_alias, target_alias, target_type, cond) ==
    LET left == cond.left
        right == cond.right
        left_alias == IF Truthy(left.entity) THEN left.entity ELSE root_alias
        right_alias == IF ~IsNoReference(right) THEN right.entity ELSE None
    IN  IF IsNoReference(right)
        THEN [source_alias |-> left_alias, matched |-> TRUE,
              found_res |-> EntityResolution_with_target_type(
                                left.characteristic, target_type)]
        ELSE IF HasKey(alias_map_, left_alias) /\ right_alias = target_alias
                /\ is_identity(right)
        THEN [source_alias |-> left_alias, matched |-> TRUE,
              found_res |-> EntityResolution_with_target_type(
                                left.characteristic, target_type)]
        ELSE IF HasKey(alias_map_, right_alias) /\ left_alias = target_alias
                /\ is_identity(left)
        THEN [source_alias |-> right_alias, matched |-> TRUE,
              found_res |-> EntityResolution_with_target_type(
                                right.characteristic, target_type)]
        ELSE IF left_alias = target_alias /\ HasKey(alias_map_, right_alias)
                /\ is_identity(right)
        THEN [source_alias |-> right_alias, matched |-> TRUE,
              found_res |-> Ok(AssociationResolution(left.characteristic,
                                                     target_type))]
        ELSE IF right_alias = target_alias /\ HasKey(alias_map_, left_alias)
                /\ is_identity(left)
        THEN [source_alias |-> left_alias, matched |-> TRUE,
              found_res |-> Ok(AssociationResolution(right.characteristic,
                                                     target_type))]
        ELSE [source_alias |-> None, matched |-> FALSE, found_res |-> Ok(None)]

(* A membership list that is always empty: no path is ever found present *)
PathStrings_none(paths) == {}

PathStrings(paths) == {ParticipantPath_str(paths[i]) : i \in 1..Len(paths)}

(* `for parent_path in alias_map[source_alias]`, from its i-th element on; *)
(* the list is read live, as Python iterates it.                           *)
RECURSIVE ExtendPaths(_, _, _, _, _, _)
ExtendPaths(alias_map_, start_type, source_alias, target_alias, found_res, i) ==
    IF i > Len(Get(alias_map_, source_alias)) THEN alias_map_
    ELSE LET parent_path == Get(alias_map_, source_alias)[i]
             new_path == ParticipantPath(start_type,
                             Append(parent_path.resolutions, found_res))
             present == ParticipantPath_str(new_path)
                            \in PathStrings(Get(alias_map_, target_alias))
         IN  ExtendPaths(
                 IF present THEN alias_map_
                 ELSE Put(alias_map_, target_alias,
                          Append(Get(alias_map_, target_alias), new_path)),
                 start_type, source_alias, target_alias, found_res, i + 1)

(* `for cond in join.on`: Ok(alias map) or the exception raised *)
RECURSIVE ProcessConditions(_, _, _, _, _, _)
ProcessConditions(alias_map_, start_type, root_alias, target_alias, target_type, on) ==
    IF on = <<>> THEN Ok(alias_map_)
    ELSE LET c == ClassifyCondition(alias_map_, root_alias, target_alias,
                                    target_type, Head(on))
         IN  IF ~IsOk(c.found_res) THEN c.found_res
             ELSE ProcessConditions(
                      IF c.matched /\ HasKey(alias_map_, c.source_alias)
                      THEN ExtendPaths(alias_map_, start_type, c.source_alias,
                                       target_alias, c.found_res.value, 1)
                      ELSE alias_map_,
                      start_type, root_alias, target_alias, target_type, Tail(on))

(* `for join in from_clause.joins`: Ok([alias_map, alias_types]) or raised *)
RECURSIVE ProcessJoins(_, _, _, _, _)
ProcessJoins(alias_map_, alias_types, start_type, root_alias, joins) ==
    IF joins = <<>> THEN Ok([alias_map |-> alias_map_, alias_types |-> alias_types])
    ELSE LET join == Head(joins)
             target_alias == IF Truthy(join.target.alias) THEN join.target.alias
                             ELSE join.target.name
             target_type == join.target.name
             with_target == IF HasKey(alias_map_, target_alias) THEN alias_map_
                            ELSE Put(alias_map_, target_alias, <<>>)
             r == ProcessConditions(with_target, start_type, root_alias,
                                    target_alias, target_type, join.on)
         IN  IF ~IsOk(r) THEN r
             ELSE ProcessJoins(r.value, Put(alias_types, target_alias, target_type),
                               start_type, root_alias, Tail(joins))

(* A projection that extends only the first path reaching the alias *)
AppendAttribute_first_base(start_type, bases, attr) ==
    IF bases = <<>> THEN <<>>
    ELSE <<ParticipantPath(start_type,
               Append(bases[1].resolutions, EntityResolution(attr)))>>

(* One terminal path per path reaching the alias: base + .attr *)
AppendAttribute(start_type, bases, attr) ==
    [i \in 1..Len(bases) |->
        ParticipantPath(start_type,
                        Append(bases[i].resolutions, EntityResolution(attr)))]

(* A wildcard expansion that gives each rolename one terminal path, built  *)
(* on the first path reaching the alias                                    *)
ExpandAttributes_one_per_rolename(start_type, bases, attributes) ==
    IF bases = <<>> THEN <<>>
    ELSE [i \in 1..Len(attributes) |->
             ParticipantPath(start_type,
                 Append(bases[1].resolutions, EntityResolution(attributes[i])))]

RECURSIVE ExpandAttributes(_, _, _)
ExpandAttributes(start_type, bases, attributes) ==
    IF attributes = <<>> THEN <<>>
    ELSE AppendAttribute(start_type, bases, Head(attributes))
             \o ExpandAttributes(start_type, bases, Tail(attributes))

(* The paths one projection contributes to projected_paths *)
ProjectionPaths(alias_map_, alias_types, start_type, root_alias, model_, proj) ==
    IF proj.type = "ProjectedCharacteristic"
    THEN LET entity_ref == IF Truthy(proj.reference.entity)
                           THEN proj.reference.entity ELSE root_alias
             attr == proj.reference.characteristic
         IN  IF Truthy(attr) /\ HasKey(alias_map_, entity_ref)
             THEN AppendAttribute(start_type, Get(alias_map_, entity_ref), attr)
             ELSE <<>>
    ELSE IF model_ # <<>>
    THEN LET target_alias == IF proj.type = "EntityWildcard" THEN proj.entity
                             ELSE root_alias
         IN  IF HasKey(alias_map_, target_alias) /\ HasKey(alias_types, target_alias)
             THEN ExpandAttributes(start_type, Get(alias_map_, target_alias),
                      get_model_attributes(model_, Get(alias_types, target_alias)))
             ELSE <<>>
    ELSE <<>>

RECURSIVE ProcessProjections(_, _, _, _, _, _)
ProcessProjections(alias_map_, alias_types, start_type, root_alias, model_, projections) ==
    IF projections = <<>> THEN <<>>
    ELSE ProjectionPaths(alias_map_, alias_types, start_type, root_alias, model_,
                         Head(projections))
             \o ProcessProjections(alias_map_, alias_types, start_type, root_alias,
                                   model_, Tail(projections))

(* query2path with the root alias seeded with an empty path list instead *)
(* of the zero-length path                                                *)
query2path_unseeded(query_ast, model_) ==
    LET from_clause == query_ast.from_clause
    IN  IF from_clause.entities = <<>>
        THEN Ok([alias_map |-> <<>>, projected_paths |-> <<>>])
        ELSE LET root_entity == from_clause.entities[1]
                 start_type == root_entity.name
                 root_alias == IF Truthy(root_entity.alias) THEN root_entity.alias
                               ELSE root_entity.name
                 seeded == <<[k |-> root_alias, v |-> <<>>]>>
                 joined == ProcessJoins(seeded,
                               <<[k |-> root_alias, v |-> start_type]>>,
                               start_type, root_alias, from_clause.joins)
             IN  IF ~IsOk(joined) THEN joined
                 ELSE Ok([alias_map |-> joined.value.alias_map,
                          projected_paths |->
                              ProcessProjections(joined.value.alias_map,
                                  joined.value.alias_types, start_type, root_alias,
                                  model_, query_ast.projections)])

(* query2path(query_ast, model): Ok([alias_map, projected_paths]) or the   *)
(* exception it raises.                                                    *)
query2path(query_ast, model_) ==
    LET from_clause == query_ast.from_clause
    IN  IF from_clause.entities = <<>>
        THEN Ok([alias_map |-> <<>>, projected_paths |-> <<>>])
        ELSE LET root_entity == from_clause.entities[1]
                 start_type == root_entity.name
                 root_alias == IF Truthy(root_entity.alias) THEN root_entity.alias
                               ELSE root_entity.name
                 seeded == <<[k |-> root_alias,
                              v |-> <<ParticipantPath(start_type, <<>>)>>]>>
                 joined == ProcessJoins(seeded,
                               <<[k |-> root_alias, v |-> start_type]>>,
                               start_type, root_alias, from_clause.joins)
             IN  IF ~IsOk(joined) THEN joined
                 ELSE Ok([alias_map |-> joined.value.alias_map,
                          projected_paths |->
                              ProcessProjections(joined.value.alias_map,
                                  joined.value.alias_types, start_type, root_alias,
                                  model_, query_ast.projections)])

(***************************************************************************)
(* query_path_conversion.py: path2query                                    *)
(***************************************************************************)
(* seq[:-1] *)
ButLast(seq) == IF seq = <<>> THEN <<>> ELSE SubSeq(seq, 1, Len(seq) - 1)

(* seq[:i] for 0 <= i <= len(seq) *)
Prefix(seq, i) == SubSeq(seq, 1, i)

(* next((k for k, v in alias_map.items()                                   *)
(*       if any(list(p2.resolutions) == list(prefix) for p2 in v)), None)  *)
FindAlias(alias_map_, prefix) ==
    LET hits == {i \in 1..Len(alias_map_) :
                    \E j \in 1..Len(alias_map_[i].v) :
                        alias_map_[i].v[j].resolutions = prefix}
    IN  IF hits = {} THEN None
        ELSE alias_map_[CHOOSE i \in hits : \A j \in hits : i <= j].k

(* The aliases one path passes through before its end: the inner loop of   *)
(* the dependency graph, and path_deps of has_joinable_path.               *)
PathDeps(alias_map_, root_alias, alias, path_) ==
    {a \in {FindAlias(alias_map_, Prefix(path_.resolutions, i)) :
                i \in 0..(Len(path_.resolutions) - 1)} :
        Truthy(a) /\ a # alias /\ a # root_alias}

(* dependencies[alias] *)
Dependencies(alias_map_, root_alias, alias) ==
    UNION {PathDeps(alias_map_, root_alias, alias, Get(alias_map_, alias)[i]) :
               i \in 1..Len(Get(alias_map_, alias))}

has_joinable_path(alias_map_, root_alias, processed, alias) ==
    \E i \in 1..Len(Get(alias_map_, alias)) :
        PathDeps(alias_map_, root_alias, alias, Get(alias_map_, alias)[i])
            \subseteq processed

(* min(len(p.resolutions) for p in paths), for a non-empty list *)
MinDepth(paths) ==
    CHOOSE n \in {Len(paths[i].resolutions) : i \in 1..Len(paths)} :
        \A i \in 1..Len(paths) : n <= Len(paths[i].resolutions)

(* Python's order on tuples of integers of one length *)
RECURSIVE TupleLess(_, _)
TupleLess(a, b) ==
    IF a = <<>> THEN FALSE
    ELSE IF Head(a) # Head(b) THEN Head(a) < Head(b)
    ELSE TupleLess(Tail(a), Tail(b))

(* Insert x (a record [item, key]) after every element whose key is not    *)
(* greater: one step of a stable sort.                                     *)
RECURSIVE InsertByKey(_, _)
InsertByKey(sorted_, x) ==
    IF sorted_ = <<>> THEN <<x>>
    ELSE IF TupleLess(x.key, Head(sorted_).key) THEN <<x>> \o sorted_
    ELSE <<Head(sorted_)>> \o InsertByKey(Tail(sorted_), x)

RECURSIVE SortKeyed(_, _)
SortKeyed(keyed, acc) ==
    IF keyed = <<>> THEN acc
    ELSE TheOnly({SortKeyed(rest, acc_) :
                      rest \in {Tail(keyed)},
                      acc_ \in {InsertByKey(acc, Head(keyed))}})

(* sorted(items, key=...) / items.sort(key=...): stable, keys[i] the key   *)
(* of items[i]                                                             *)
StableSort(items, keys) ==
    TheOnly({TheOnly({[i \in 1..Len(s_) |-> s_[i].item] :
                         s_ \in {SortKeyed(keyed, <<>>)}}) :
                keyed \in {[i \in 1..Len(items) |->
                               [item |-> items[i], key |-> keys[i]]]}})

HasEmptyPathList(alias_map_, aliases) ==
    \E i \in 1..Len(aliases) : Get(alias_map_, aliases[i]) = <<>>

(* A sort key that is the same for every alias: the sort leaves the list   *)
(* in the order it came in                                                 *)
DepthKeys_constant(alias_map_, aliases) == [i \in 1..Len(aliases) |-> <<0>>]

(* key=lambda k: min(len(p.resolutions) for p in alias_map[k]) *)
DepthKeys(alias_map_, aliases) ==
    [i \in 1..Len(aliases) |-> <<MinDepth(Get(alias_map_, aliases[i]))>>]

(* dependency_score(alias) *)
dependency_score(alias_map_, root_alias, processed, candidates, alias) ==
    LET unprocessed_deps == Dependencies(alias_map_, root_alias, alias) \ processed
        penalty == Cardinality(unprocessed_deps \cap Range(candidates))
    IN  <<penalty, Cardinality(unprocessed_deps), MinDepth(Get(alias_map_, alias))>>

(* A `ready` list that, with no alias ready, takes every alias that has a  *)
(* joinable path instead of the best-scored ones                           *)
ReadyAliases_all_candidates(alias_map_, root_alias, processed, remaining_list) ==
    IF \E k \in 1..Len(remaining_list) :
           Dependencies(alias_map_, root_alias, remaining_list[k])
               \subseteq processed
    THEN Ok(SelectSeq(remaining_list,
                LAMBDA a : Dependencies(alias_map_, root_alias, a)
                               \subseteq processed))
    ELSE Ok(SelectSeq(remaining_list,
                LAMBDA a : has_joinable_path(alias_map_, root_alias,
                                             processed, a)))

(* A `ready` list without the fallbacks: with no alias ready it is empty *)
ReadyAliases_no_fallback(alias_map_, root_alias, processed, remaining_list) ==
    Ok(SelectSeq(remaining_list,
           LAMBDA a : Dependencies(alias_map_, root_alias, a) \subseteq processed))

(* The `ready` list of one iteration of `while remaining`, before the     *)
(* final ready.sort: Ok(list) or ValueError (min() of an empty path list). *)
(* remaining_list is the set `remaining` in its iteration order.           *)
ReadyAliases(alias_map_, root_alias, processed, remaining_list) ==
    TheOnly({
        IF ready # <<>> THEN Ok(ready)
        ELSE IF candidates # <<>>
        THEN TheOnly({TheOnly({
                 Ok(SelectSeq(by_score,
                        LAMBDA a : dependency_score(alias_map_, root_alias,
                                       processed, candidates, a) = best_score)) :
                 best_score \in {dependency_score(alias_map_, root_alias,
                                      processed, candidates, by_score[1])}}) :
                 by_score \in {StableSort(candidates,
                                  [i \in 1..Len(candidates) |->
                                      dependency_score(alias_map_, root_alias,
                                          processed, candidates, candidates[i])])}})
        ELSE IF HasEmptyPathList(alias_map_, remaining_list)
        THEN Raise("ValueError")
        ELSE Ok(StableSort(remaining_list, DepthKeys(alias_map_, remaining_list))) :
        ready \in {SelectSeq(remaining_list,
                       LAMBDA a : Dependencies(alias_map_, root_alias, a)
                                      \subseteq processed)},
        candidates \in {SelectSeq(remaining_list,
                            LAMBDA a : has_joinable_path(alias_map_, root_alias,
                                                         processed, a))}})

(* An ordering loop that hands back the aliases in the iteration order of  *)
(* the set, whatever they depend on                                        *)
OrderAliases_unordered(alias_map_, root_alias, hash_order, sorted_aliases, remaining, processed) ==
    Ok(hash_order)

(* The `while remaining` loop: Ok(sorted_aliases) or ValueError.           *)
(* hash_order lists the aliases in the iteration order of the Python set   *)
(* `remaining`, which depends on the string hashes of the run.             *)
RECURSIVE OrderAliases(_, _, _, _, _, _)
OrderAliases(alias_map_, root_alias, hash_order, sorted_aliases, remaining, processed) ==
    IF remaining = {} THEN Ok(sorted_aliases)
    ELSE LET remaining_list == SelectSeq(hash_order, LAMBDA a : a \in remaining)
             r == ReadyAliases(alias_map_, root_alias, processed, remaining_list)
         IN  IF ~IsOk(r) THEN r
             ELSE IF HasEmptyPathList(alias_map_, r.value) THEN Raise("ValueError")
             ELSE LET ready == StableSort(r.value, DepthKeys(alias_map_, r.value))
                  IN  OrderAliases(alias_map_, root_alias, hash_order,
                                   sorted_aliases \o ready,
                                   remaining \ Range(ready),
                                   processed \cup Range(ready))

(* last_res.target_type on an EntityResolution: the dataclass of           *)
(* participant_path_parser.py has no such attribute.                       *)
EntityResolution_target_type(res) == Raise("AttributeError")

(* _resolve_target_type(paths, model, source_type).  For an entity hop the *)
(* read of last_res.target_type raises before the schema lookup and the    *)
(* rolename fallback (lines 289-298) are reached.                          *)
_resolve_target_type(paths, model_, source_type) ==
    IF paths[1].resolutions = <<>> THEN Raise("IndexError")
    ELSE LET last_res == paths[1].resolutions[Len(paths[1].resolutions)]
         IN  IF IsAssociationResolution(last_res)
             THEN Ok(last_res.association_name)
             ELSE EntityResolution_target_type(last_res)

(* The path path2query resolves the alias's type from: the first path      *)
(* whose prefix alias is already in alias_type_tracker, else the first     *)
(* path.  [best_path, source_alias]                                        *)
BestPath(alias_map_, alias_type_tracker, alias) ==
    LET paths == Get(alias_map_, alias)
        good == {i \in 1..Len(paths) :
                    LET a == FindAlias(alias_map_, ButLast(paths[i].resolutions))
                    IN  Truthy(a) /\ HasKey(alias_type_tracker, a)}
        first == IF good = {} THEN 1
                 ELSE CHOOSE i \in good : \A j \in good : i <= j
    IN  [best_path |-> paths[first],
         source_alias |-> FindAlias(alias_map_, ButLast(paths[first].resolutions))]

(* One Equivalence of a Join, for a path whose prefix alias is known *)
PathEquivalence(alias, path_source_alias, res) ==
    IF IsEntityResolution(res)
    THEN Equivalence(Reference(path_source_alias, res.rolename),
                     Reference(alias, None))
    ELSE Equivalence(Reference(alias, res.rolename),
                     Reference(path_source_alias, None))

(* `for p in alias_map[alias]` building equivalences: Ok(list) or          *)
(* IndexError (p.resolutions[-1] of a zero-length path)                    *)
RECURSIVE Equivalences(_, _, _)
Equivalences(alias_map_, alias, paths) ==
    IF paths = <<>> THEN Ok(<<>>)
    ELSE LET p_ == Head(paths)
             path_source_alias == FindAlias(alias_map_, ButLast(p_.resolutions))
             rest == Equivalences(alias_map_, alias, Tail(paths))
         IN  IF path_source_alias = None
             THEN rest
             ELSE IF p_.resolutions = <<>> THEN Raise("IndexError")
             ELSE IF ~IsOk(rest) THEN rest
             ELSE Ok(<<PathEquivalence(alias, path_source_alias,
                           p_.resolutions[Len(p_.resolutions)])>> \o rest.value)

(* BuildJoins appending one Join per path of the alias instead of one Join *)
(* carrying all the equivalences                                           *)
RECURSIVE BuildJoins_per_path(_, _, _, _, _)
BuildJoins_per_path(alias_map_, model_, alias_type_tracker, sorted_aliases, joins) ==
    IF sorted_aliases = <<>> THEN Ok(joins)
    ELSE LET alias == Head(sorted_aliases)
             best == BestPath(alias_map_, alias_type_tracker, alias)
             source_type == IF Truthy(best.source_alias)
                               /\ HasKey(alias_type_tracker, best.source_alias)
                            THEN Get(alias_type_tracker, best.source_alias)
                            ELSE None
             target_type == _resolve_target_type(<<best.best_path>>, model_,
                                                 source_type)
             equivalences == Equivalences(alias_map_, alias, Get(alias_map_, alias))
         IN  IF ~IsOk(target_type) THEN target_type
             ELSE IF ~IsOk(equivalences) THEN equivalences
             ELSE BuildJoins_per_path(alias_map_, model_,
                      Put(alias_type_tracker, alias, target_type.value),
                      Tail(sorted_aliases),
                      joins \o [i \in 1..Len(equivalences.value) |->
                                   Join(Entity(target_type.value, alias),
                                        <<equivalences.value[i]>>)])

(* `for alias in sorted_aliases`: Ok(joins) or the exception raised *)
RECURSIVE BuildJoins(_, _, _, _, _)
BuildJoins(alias_map_, model_, alias_type_tracker, sorted_aliases, joins) ==
    IF sorted_aliases = <<>> THEN Ok(joins)
    ELSE LET alias == Head(sorted_aliases)
             best == BestPath(alias_map_, alias_type_tracker, alias)
             source_type == IF Truthy(best.source_alias)
                               /\ HasKey(alias_type_tracker, best.source_alias)
                            THEN Get(alias_type_tracker, best.source_alias)
                            ELSE None
             target_type == _resolve_target_type(<<best.best_path>>, model_,
                                                 source_type)
             equivalences == Equivalences(alias_map_, alias, Get(alias_map_, alias))
         IN  IF ~IsOk(target_type) THEN target_type
             ELSE IF ~IsOk(equivalences) THEN equivalences
             ELSE BuildJoins(alias_map_, model_,
                      Put(alias_type_tracker, alias, target_type.value),
                      Tail(sorted_aliases),
                      Append(joins, Join(Entity(target_type.value, alias),
                                         equivalences.value)))

(* A projection loop that gives every terminal path a projection on the    *)
(* first alias of the map                                                  *)
BuildProjections_first_alias(alias_map_, paths) ==
    Ok([i \in 1..Len(paths) |->
           ProjectedCharacteristic(
               Reference(alias_map_[1].k,
                         paths[i].resolutions[Len(paths[i].resolutions)].rolename),
               None)])

(* `for p in projected_paths`: Ok(projections) or IndexError *)
RECURSIVE BuildProjections(_, _)
BuildProjections(alias_map_, paths) ==
    IF paths = <<>> THEN Ok(<<>>)
    ELSE LET p_ == Head(paths)
             source_alias == FindAlias(alias_map_, ButLast(p_.resolutions))
             rest == BuildProjections(alias_map_, Tail(paths))
         IN  IF source_alias = None THEN rest
             ELSE IF p_.resolutions = <<>> THEN Raise("IndexError")
             ELSE IF ~IsOk(rest) THEN rest
             ELSE Ok(<<ProjectedCharacteristic(
                           Reference(source_alias,
                                     p_.resolutions[Len(p_.resolutions)].rolename),
                           None)>> \o rest.value)

(* The aliases that hold a zero-length path, in alias-map order *)
RootCandidates(alias_map_) ==
    SelectSeq(Keys(alias_map_),
              LAMBDA k : \E i \in 1..Len(Get(alias_map_, k)) :
                             Get(alias_map_, k)[i].resolutions = <<>>)

(* path2query(alias_map, projected_paths, model): Ok(list of statements)   *)
(* or the exception raised.                                                *)
path2query(alias_map_, projected_paths_, model_, hash_order) ==
    IF alias_map_ = <<>> THEN Ok(<<>>)
    ELSE IF RootCandidates(alias_map_) = <<>> THEN Raise("StopIteration")
    ELSE LET root_alias == RootCandidates(alias_map_)[1]
             start_type == Get(alias_map_, root_alias)[1].start_type
             order == OrderAliases(alias_map_, root_alias, hash_order, <<>>,
                                   KeySet(alias_map_) \ {root_alias}, {root_alias})
         IN  IF ~IsOk(order) THEN order
             ELSE LET joins == BuildJoins(alias_map_, model_,
                                   <<[k |-> root_alias, v |-> start_type]>>,
                                   order.value, <<>>)
                  IN  IF ~IsOk(joins) THEN joins
                      ELSE LET projections ==
                                   BuildProjections(alias_map_, projected_paths_)
                           IN  IF ~IsOk(projections) THEN projections
                               ELSE Ok(<<QueryStatement(projections.value,
                                           FromClause(<<Entity(start_type, root_alias)>>,
                                                      joins.value),
                                           None)>>)

(***************************************************************************)
(* query_path_conversion.py: _reconstruct_alias_map                        *)
(***************************************************************************)
DigitSeq == <<"0","1","2","3","4","5","6","7","8","9">>

(* str(n) for n >= 0 *)
RECURSIVE IntStr(_)
IntStr(n) ==
    IF n < 10 THEN DigitSeq[n + 1]
    ELSE IntStr(n \div 10) \o DigitSeq[(n % 10) + 1]

(* obj.split('.')[-1]: the part of obj after its last period *)
RECURSIVE LastDotPart(_, _)
LastDotPart(obj, i) ==
    IF i = 0 THEN obj
    ELSE IF CharAt(obj, i) = "." THEN SubSeq(obj, i + 1, Len(obj))
    ELSE LastDotPart(obj, i - 1)

get_entity_type(model_, source_type, rolename) ==
    LET hits == {i \in 1..Len(model_) : /\ model_[i].subject = source_type
                                        /\ model_[i].rolename = rolename}
    IN  IF model_ = <<>> \/ hits = {} THEN rolename
        ELSE LET t == model_[CHOOSE i \in hits : \A j \in hits : i <= j]
             IN  LastDotPart(t.object, Len(t.object))

(* "Trace types from root": the type at the end of a hop sequence *)
RECURSIVE TraceType(_, _, _)
TraceType(model_, curr_type, resolutions) ==
    IF resolutions = <<>> THEN curr_type
    ELSE TraceType(model_,
             IF IsAssociationResolution(Head(resolutions))
             THEN Head(resolutions).association_name
             ELSE get_entity_type(model_, curr_type, Head(resolutions).rolename),
             Tail(resolutions))

(* An alias name that is the type name whether or not it is taken *)
UniqueAliasName_reuse(alias_map_, type_name, alias_name, counter) == type_name

(* The `while alias_name in alias_map` loop *)
RECURSIVE UniqueAliasName(_, _, _, _)
UniqueAliasName(alias_map_, type_name, alias_name, counter) ==
    IF HasKey(alias_map_, alias_name)
    THEN UniqueAliasName(alias_map_, type_name,
                         type_name \o "_" \o IntStr(counter), counter + 1)
    ELSE alias_name

(* get_or_create_alias(path_obj) as its effect on the two dicts it closes  *)
(* over: st = [alias_map, path_to_alias].                                  *)
RECURSIVE get_or_create_alias(_, _, _)
get_or_create_alias(model_, st, path_obj) ==
    IF HasKey(st.path_to_alias, ParticipantPath_str(path_obj)) THEN st
    ELSE LET res_ == path_obj.resolutions
             st1 == IF res_ = <<>> THEN st
                    ELSE get_or_create_alias(model_, st,
                             ParticipantPath(path_obj.start_type, ButLast(res_)))
             parent_type == TraceType(model_, path_obj.start_type, ButLast(res_))
             type_name ==
                 IF res_ = <<>> THEN path_obj.start_type
                 ELSE IF IsAssociationResolution(res_[Len(res_)])
                 THEN res_[Len(res_)].association_name
                 ELSE get_entity_type(model_, parent_type, res_[Len(res_)].rolename)
             alias_name == UniqueAliasName(st1.alias_map, type_name, type_name, 1)
         IN  [alias_map |-> Put(st1.alias_map, alias_name, <<path_obj>>),
              path_to_alias |-> Put(st1.path_to_alias,
                                    ParticipantPath_str(path_obj), alias_name)]

(* `for i in range(len(entity_path.resolutions) + 1)` from i on *)
RECURSIVE AliasChain(_, _, _, _)
AliasChain(model_, st, entity_path, i) ==
    IF i > Len(entity_path.resolutions) THEN st
    ELSE AliasChain(model_,
             get_or_create_alias(model_, st,
                 ParticipantPath(entity_path.start_type,
                                 Prefix(entity_path.resolutions, i))),
             entity_path, i + 1)

(* `for p in paths` *)
RECURSIVE AliasAllPaths(_, _, _)
AliasAllPaths(model_, st, paths) ==
    IF paths = <<>> THEN st
    ELSE AliasAllPaths(model_,
             AliasChain(model_, st,
                 ParticipantPath(Head(paths).start_type,
                                 ButLast(Head(paths).resolutions)), 0),
             Tail(paths))

(* path_to_alias = {str(p): k for k, v in partial_map.items() for p in v} *)
RECURSIVE PathToAlias(_, _)
PathToAlias(partial_map_, acc) ==
    IF partial_map_ = <<>> THEN acc
    ELSE LET e == Head(partial_map_)
             RECURSIVE AddPaths(_, _)
             AddPaths(ps, d) ==
                 IF ps = <<>> THEN d
                 ELSE AddPaths(Tail(ps), Put(d, ParticipantPath_str(Head(ps)), e.k))
         IN  PathToAlias(Tail(partial_map_), AddPaths(e.v, acc))

_reconstruct_alias_map(model_, paths, partial_map_) ==
    AliasAllPaths(model_,
        [alias_map |-> partial_map_,
         path_to_alias |-> PathToAlias(partial_map_, <<>>)],
        paths).alias_map

(***************************************************************************)
(* The pipelines.  Every specification below starts from inputs drawn from *)
(* bounded sets and applies the functions above, one call per action.      *)
(* A pipeline leaves the variables of the other layers at Unused.          *)
(***************************************************************************)
IdlePath ==
    ppText = Unused /\ ppPath = Unused /\ ppBack = Unused /\ ppCompare = Unused

IdleParser == qText = Unused /\ qAst = Unused /\ qBack = Unused

IdleForward == query = Unused /\ compiled = Unused /\ frame = Unused

IdleReverse ==
    /\ partial_map = Unused /\ alias_map = Unused /\ projected_paths = Unused
    /\ statement = Unused /\ recompiled = Unused

(* All permutations of a finite set, as sequences *)
RECURSIVE Perms(_)
Perms(S) ==
    IF S = {} THEN {<<>>}
    ELSE UNION {{<<x>> \o p_ : p_ \in Perms(S \ {x})} : x \in S}

(* All sequences over S of length at most n *)
RECURSIVE SeqsUpTo(_, _)
SeqsUpTo(S, n) ==
    IF n = 0 THEN {<<>>}
    ELSE LET shorter == SeqsUpTo(S, n - 1)
         IN  shorter \cup {Append(q, x) : q \in {r \in shorter : Len(r) = n - 1},
                                          x \in S}

(* All strings over the characters of S of length at most n *)
RECURSIVE StringsUpTo(_, _)
StringsUpTo(S, n) ==
    IF n = 0 THEN {""}
    ELSE LET shorter == StringsUpTo(S, n - 1)
         IN  shorter \cup {t \o c : t \in {r \in shorter : Len(r) = n - 1},
                                    c \in S}

(***************************************************************************)
(* SpecPath: ParticipantPath.parse and __str__, in both orders.            *)
(***************************************************************************)
(* Longest hop sequence of an input path *)
MaxHops == 2

(* Longest text enumerated character by character *)
MaxTextLen == 4

PathStartTypes == {"A", "a1"}

PathHops ==
    {EntityResolution(r) : r \in {"b", "_c1"}}
        \cup {AssociationResolution(r, a) : r \in {"b", "_c1"}, a \in {"B"}}

InputPaths ==
    {ParticipantPath(st, hops) : st \in PathStartTypes,
                                 hops \in SeqsUpTo(PathHops, MaxHops)}

PathAlphabet == {"a", "1", "_", ".", "-", ">", "[", "]"}

(* A printed path with one character removed, or one inserted *)
EditedTexts(t) ==
    {SubSeq(t, 1, i - 1) \o SubSeq(t, i + 1, Len(t)) : i \in 1..Len(t)}
        \cup {SubSeq(t, 1, i) \o c \o SubSeq(t, i + 1, Len(t)) :
                  i \in 0..Len(t), c \in PathAlphabet}

InputTexts ==
    StringsUpTo(PathAlphabet, MaxTextLen)
        \cup {ParticipantPath_str(p_) : p_ \in InputPaths}
        \cup UNION {EditedTexts(ParticipantPath_str(p_)) : p_ \in InputPaths}

InitPath ==
    /\ \/ pc = "path" /\ ppPath \in {Ok(p_) : p_ \in InputPaths} /\ ppText = Unused
       \/ pc = "text" /\ ppText \in InputTexts /\ ppPath = Unused
    /\ ppBack = Unused /\ ppCompare = Unused
    /\ IdleParser /\ model = <<>> /\ IdleForward /\ IdleReverse

(* str(path) *)
PathToString ==
    /\ pc = "path"
    /\ ppText' = ParticipantPath_str(ppPath.value)
    /\ pc' = "printed"
    /\ UNCHANGED <<ppCompare, frame, ppPath, ppBack, qText, qAst, qBack, model, query, compiled,
                   partial_map, alias_map, projected_paths, statement, recompiled>>

(* ParticipantPath.parse(str(path)) *)
ParseBack ==
    /\ pc = "printed"
    /\ ppBack' = ParticipantPath_parse(ppText)
    /\ pc' = "reparsed"
    /\ UNCHANGED <<ppCompare, frame, ppText, ppPath, qText, qAst, qBack, model, query, compiled,
                   partial_map, alias_map, projected_paths, statement, recompiled>>

(* ParticipantPath.parse(text) *)
Parse ==
    /\ pc = "text"
    /\ ppPath' = ParticipantPath_parse(ppText)
    /\ pc' = "parsed"
    /\ UNCHANGED <<ppCompare, frame, ppText, ppBack, qText, qAst, qBack, model, query, compiled,
                   partial_map, alias_map, projected_paths, statement, recompiled>>

(* str(ParticipantPath.parse(text)), when parse accepted the text *)
PrintBack ==
    /\ pc = "parsed"
    /\ IsOk(ppPath)
    /\ ppBack' = Ok(ParticipantPath_str(ppPath.value))
    /\ pc' = "reprinted"
    /\ UNCHANGED <<ppCompare, frame, ppText, ppPath, qText, qAst, qBack, model, query, compiled,
                   partial_map, alias_map, projected_paths, statement, recompiled>>

(* path == other, for other the object path itself, the object that       *)
(* ParticipantPath.parse(str(path)) returned, or an object newly built by  *)
(* the constructor.  The three are distinct live objects.                  *)
Compare ==
    /\ pc = "reparsed"
    /\ IsOk(ppBack)
    /\ \E other \in {PathObject(1, ppPath.value), PathObject(2, ppBack.value)}
                       \cup {PathObject(3, q_) : q_ \in InputPaths} :
           ppCompare' = [other |-> other,
                         result |-> ParticipantPath_eq(PathObject(1, ppPath.value),
                                                       other)]
    /\ pc' = "compared"
    /\ UNCHANGED <<ppText, ppPath, ppBack, qText, qAst, qBack, model, query,
                   compiled, frame, partial_map, alias_map, projected_paths,
                   statement, recompiled>>

NextPath == PathToString \/ ParseBack \/ Parse \/ PrintBack \/ Compare

SpecPath == InitPath /\ [][NextPath]_vars

(* C7: parse(to_string(p)) has the start_type and the hop sequence (kind,  *)
(* rolename, association name) of p, and to_string(parse(t)) = t for every *)
(* text t that parse accepts.                                              *)
C7_PathRoundTrip ==
    /\ pc = "reparsed" => ppBack = ppPath
    /\ pc = "reprinted" => ppBack = Ok(ppText)

(* A text with both hop kinds was parsed and printed back *)
C7_Witness ==
    /\ pc = "reprinted"
    /\ \E i, j \in 1..Len(ppPath.value.resolutions) :
           /\ IsAssociationResolution(ppPath.value.resolutions[i])
           /\ IsEntityResolution(ppPath.value.resolutions[j])

(* C13: two ParticipantPath values with the same start_type and            *)
(* element-wise equal hops (kind, rolename, association name) compare      *)
(* equal however they were constructed, and two paths that differ in the   *)
(* start_type or in a hop do not.                                          *)
C13_StructuralEquality ==
    pc = "compared"
        => (ppCompare.result <=> ppCompare.other.path = ppPath.value)

(***************************************************************************)
(* SpecParser: get_ast on query texts, printing the AST back with __str__  *)
(* and parsing again, and forward-compiling the parsed statement.          *)
(***************************************************************************)
(* Longest text enumerated lexeme by lexeme *)
MaxLexemes == 4

Lexemes == {"SELECT", "ALL", "x", "A", "FROM", ",", "*", "#"}

(* The lexemes of a sequence, separated by single spaces *)
RECURSIVE SpaceJoined(_)
SpaceJoined(lexemes) ==
    IF lexemes = <<>> THEN ""
    ELSE IF Len(lexemes) = 1 THEN lexemes[1]
    ELSE lexemes[1] \o " " \o SpaceJoined(Tail(lexemes))

LexemeTexts == {SpaceJoined(q) : q \in SeqsUpTo(Lexemes, MaxLexemes)}

SelectTexts == {"SELECT ", "select\n", ""}

QualifierTexts == {"", "ALL "}

ProjectionTexts == {"*", "x", "B.x", "B.*", "x AS y, B.y"}

RootTexts == {"A", "A AS a0"}

UnaryJoinText == " JOIN B ON A.b"

ExplicitJoinText == " JOIN B ON A.b = B"

JoinTexts ==
    {"", UnaryJoinText, ExplicitJoinText, " JOIN B ON B.b = A",
     " JOIN B b1 ON A.b AND A.c = b1"}

TailTexts == {"", " x", " x y", " #", " JOIN", ", C"}

(* SELECT [ALL] projections FROM root, with the root entity unaliased *)
PlainStems ==
    {s \o q \o p_ \o " FROM A" :
         s \in SelectTexts, q \in QualifierTexts, p_ \in ProjectionTexts}

StatementStems ==
    {s \o q \o p_ \o " FROM " \o r :
         s \in SelectTexts, q \in QualifierTexts, p_ \in ProjectionTexts,
         r \in RootTexts}

StructuredTexts ==
    {st \o j \o t : st \in StatementStems, j \in JoinTexts, t \in TailTexts}

QueryTexts == LexemeTexts \cup StructuredTexts

InitParser ==
    /\ pc = "q_text"
    /\ qText \in QueryTexts
    /\ qAst = Unused /\ qBack = Unused
    /\ IdlePath /\ model = <<>> /\ IdleForward /\ IdleReverse

(* get_ast(text) *)
GetAst ==
    /\ pc = "q_text"
    /\ qAst' = get_ast(qText)
    /\ pc' = "q_ast"
    /\ UNCHANGED <<ppCompare, frame, ppText, ppPath, ppBack, qText, qBack, model, query, compiled,
                   partial_map, alias_map, projected_paths, statement, recompiled>>

(* get_ast(str(ast)) *)
Reparse ==
    /\ pc = "q_ast"
    /\ IsOk(qAst)
    /\ qBack' = get_ast(QueryStatement_str(qAst.value))
    /\ pc' = "q_reparsed"
    /\ UNCHANGED <<ppCompare, frame, ppText, ppPath, ppBack, qText, qAst, model, query, compiled,
                   partial_map, alias_map, projected_paths, statement, recompiled>>

(* query2path(ast, model) *)
Compile ==
    /\ pc = "q_ast"
    /\ IsOk(qAst)
    /\ query' = qAst.value
    /\ compiled' = query2path(qAst.value, model)
    /\ pc' = "q_compiled"
    /\ UNCHANGED <<ppCompare, frame, ppText, ppPath, ppBack, qText, qAst, qBack, model,
                   partial_map, alias_map, projected_paths, statement, recompiled>>

NextParser == GetAst \/ Reparse \/ Compile

SpecParser == InitParser /\ [][NextParser]_vars

(* The query grammar of the specification, as an automaton over token     *)
(* kinds: SELECT [ALL] proj_list FROM entity_ref join*                     *)
GrammarDelta ==
    {<<"start", "SELECT", "select">>,
     <<"select", "ALL", "all">>,
     <<"select", "ASTERISK", "star">>, <<"all", "ASTERISK", "star">>,
     <<"select", "ID", "p_id">>, <<"all", "ID", "p_id">>,
     <<"p_id", "PERIOD", "p_dot">>, <<"p_id", "AS", "p_as">>,
     <<"p_id", "ID", "p_alias">>, <<"p_id", "COMMA", "p_next">>,
     <<"p_id", "FROM", "from">>,
     <<"p_dot", "ASTERISK", "p_ref">>, <<"p_dot", "ID", "p_ref">>,
     <<"p_ref", "AS", "p_as">>, <<"p_ref", "ID", "p_alias">>,
     <<"p_ref", "COMMA", "p_next">>, <<"p_ref", "FROM", "from">>,
     <<"p_as", "ID", "p_alias">>,
     <<"p_alias", "COMMA", "p_next">>, <<"p_alias", "FROM", "from">>,
     <<"p_next", "ID", "p_id">>,
     <<"star", "FROM", "from">>,
     <<"from", "ID", "e_id">>,
     <<"e_id", "AS", "e_as">>, <<"e_id", "ID", "e_alias">>,
     <<"e_id", "JOIN", "join">>,
     <<"e_as", "ID", "e_alias">>,
     <<"e_alias", "JOIN", "join">>,
     <<"join", "ID", "j_id">>,
     <<"j_id", "AS", "j_as">>, <<"j_id", "ID", "j_alias">>,
     <<"j_id", "ON", "cond">>,
     <<"j_as", "ID", "j_alias">>,
     <<"j_alias", "ON", "cond">>,
     <<"cond", "ID", "l_id">>,
     <<"l_id", "PERIOD", "l_dot">>, <<"l_id", "EQUALS", "equals">>,
     <<"l_id", "AND", "cond">>, <<"l_id", "JOIN", "join">>,
     <<"l_dot", "ID", "l_ref">>,
     <<"l_ref", "EQUALS", "equals">>, <<"l_ref", "AND", "cond">>,
     <<"l_ref", "JOIN", "join">>,
     <<"equals", "ID", "r_id">>,
     <<"r_id", "PERIOD", "r_dot">>, <<"r_id", "AND", "cond">>,
     <<"r_id", "JOIN", "join">>,
     <<"r_dot", "ID", "r_ref">>,
     <<"r_ref", "AND", "cond">>, <<"r_ref", "JOIN", "join">>}

GrammarAccepting == {"e_id", "e_alias", "l_id", "l_ref", "r_id", "r_ref"}

RECURSIVE GrammarRun(_, _, _)
GrammarRun(states, tokens, i) ==
    IF i > Len(tokens) THEN states
    ELSE GrammarRun({t[3] : t \in {d \in GrammarDelta :
                                       d[1] \in states /\ d[2] = tokens[i].kind}},
                    tokens, i + 1)

(* Some character of the text belongs to no token and is not whitespace *)
RECURSIVE HasStrayCharacter(_, _)
HasStrayCharacter(text, i) ==
    IF i > Len(text) THEN FALSE
    ELSE LET m == MatchToken(text, i)
         IN  m.kind = "NOMATCH" \/ HasStrayCharacter(text, m.end)

IsSentence(text) ==
    /\ ~HasStrayCharacter(text, 1)
    /\ GrammarRun({"start"}, _tokenize(text), 1) \cap GrammarAccepting # {}

(* C9: for every input that is not a sentence of the query grammar,        *)
(* including inputs with extra tokens after a complete statement or with   *)
(* characters that are no token, get_ast raises SyntaxError, no AST.       *)
C9_NonSentenceRaises ==
    pc = "q_ast" /\ ~IsSentence(qText) => qAst = Raise("SyntaxError")

(* C8: for every syntactically valid text q, parsing the printed form of   *)
(* parse(q) yields an AST equal to parse(q), also with the ALL qualifier,  *)
(* a * projection or an alias.* projection.                                *)
C8_ReparseIdempotent ==
    pc = "q_reparsed" /\ IsSentence(qText) => qBack = qAst

(* C3: a query with JOIN B ON A.b and the same query with                  *)
(* JOIN B ON A.b = B forward-compile to identical alias maps, in which     *)
(* alias B has exactly one path, a single entity hop with rolename b.      *)
C3_UnaryMatchesExplicit ==
    pc = "q_compiled" /\ qText \in {st \o UnaryJoinText : st \in PlainStems}
        => LET explicit == get_ast(qText \o " = B")
               other == query2path(explicit.value, model)
           IN  /\ IsOk(compiled)
               /\ IsOk(other)
               /\ compiled.value.alias_map = other.value.alias_map
               /\ HasKey(compiled.value.alias_map, "B")
               /\ Get(compiled.value.alias_map, "B")
                      = <<ParticipantPath("A", <<EntityResolution("b")>>)>>

(***************************************************************************)
(* SpecForward: query2path on statements built as ASTs, then path2query on *)
(* what it returned.                                                       *)
(***************************************************************************)
(* Most joins in the FROM clause of an input statement *)
MaxJoins == 2

(* The orders in which `for a in remaining` can visit the set `remaining`: *)
(* the iteration order of a Python set of strings is fixed by the hash     *)
(* seed of the process, not by the program.                                *)
HashOrders(alias_map_) ==
    IF RootCandidates(alias_map_) = <<>> THEN {<<>>}
    ELSE Perms(KeySet(alias_map_) \ {RootCandidates(alias_map_)[1]})

Unary(left) == Equivalence(left, NoReference)

TargetB == Entity("B", None)

TargetC == Entity("C", "c1")

JoinUniverse ==
    {Join(TargetB, <<Unary(Reference("A", "b"))>>),
     Join(TargetB, <<Unary(Reference(None, "b"))>>),
     Join(TargetB, <<Equivalence(Reference("A", "b"), Reference("B", None))>>),
     Join(TargetB, <<Equivalence(Reference("B", None), Reference("A", "b"))>>),
     Join(TargetB, <<Equivalence(Reference("A", "b"), Reference(None, "B"))>>),
     Join(TargetB, <<Equivalence(Reference("B", "b"), Reference("A", None))>>),
     Join(TargetB, <<Equivalence(Reference("A", None), Reference("B", "b"))>>),
     Join(TargetC, <<Equivalence(Reference("c1", "c"), Reference("B", None))>>),
     Join(TargetC, <<Equivalence(Reference("B", "c"), Reference("c1", None))>>),
     Join(TargetC, <<Equivalence(Reference("c1", "c"), Reference("A", None)),
                     Equivalence(Reference("c1", "d"), Reference("B", None))>>),
     Join(TargetC, <<Equivalence(Reference("c1", "c"), Reference("A", None)),
                     Equivalence(Reference("c1", "c"), Reference("A", None))>>),
     Join(TargetB, <<Equivalence(Reference("B", "b"), Reference("A", None)),
                     Unary(Reference("B", "x"))>>),
     Join(Entity("A", None),
          <<Equivalence(Reference("A", "r"), Reference("B", None))>>),
     Join(TargetB, <<Equivalence(Reference(None, "b"), Reference("B", None))>>),
     Join(Entity("B", "b2"),
          <<Equivalence(Reference("b2", "b"), Reference("A", None))>>)}

EntityLists == {<<>>, <<Entity("A", None)>>, <<Entity("A", "a0")>>}

ProjectionLists ==
    {<<>>,
     <<ProjectedCharacteristic(Reference("B", "x"), None)>>,
     <<ProjectedCharacteristic(Reference(None, "x"), None),
       ProjectedCharacteristic(Reference("c1", "y"), "y1")>>,
     <<AllCharacteristics, EntityWildcard("B")>>}

ForwardModel ==
    <<UddlTuple("A", "composes", "T", "x"),
      UddlTuple("B", "composes", "T", "y"),
      UddlTuple("B", "composes", "T", "x"),
      UddlTuple("B", "associates", "A", "b")>>

InputQueries ==
    {QueryStatement(projections, FromClause(entities, joins), None) :
         projections \in ProjectionLists, entities \in EntityLists,
         joins \in SeqsUpTo(JoinUniverse, MaxJoins)}

InitForward ==
    /\ pc = "query"
    /\ query \in InputQueries
    /\ model \in {<<>>, ForwardModel}
    /\ compiled = Unused /\ frame = Unused
    /\ IdlePath /\ IdleParser /\ IdleReverse

(* query2path(query, model) *)
Query2Path ==
    /\ pc = "query"
    /\ compiled' = query2path(query, model)
    /\ pc' = "compiled"
    /\ UNCHANGED <<ppCompare, frame, ppText, ppPath, ppBack, qText, qAst, qBack, model, query,
                   partial_map, alias_map, projected_paths, statement, recompiled>>

(* path2query(alias_map, projected_paths, model) on the pair query2path returned *)
ReverseCompiled ==
    /\ pc = "compiled"
    /\ IsOk(compiled)
    /\ \E hash_order \in HashOrders(compiled.value.alias_map) :
           statement' = path2query(compiled.value.alias_map,
                                   compiled.value.projected_paths, model, hash_order)
    /\ pc' = "round_trip"
    /\ UNCHANGED <<ppCompare, frame, ppText, ppPath, ppBack, qText, qAst, qBack, model, query,
                   compiled, partial_map, alias_map, projected_paths, recompiled>>

NextForward == Query2Path \/ ReverseCompiled

SpecForward == InitForward /\ [][NextForward]_vars

(* The alias a statement gives its root entity and its join targets *)
AliasOf(entity) == IF Truthy(entity.alias) THEN entity.alias ELSE entity.name

RootAliasOf(q) == AliasOf(q.from_clause.entities[1])

(* A reference with the root alias filled in where the entity is left out *)
Qualified(q, ref) ==
    <<IF Truthy(ref.entity) THEN ref.entity ELSE RootAliasOf(q), ref.characteristic>>

(* A condition as the unordered pair of its operands; a unary condition    *)
(* stands for its explicit form with the join target as identity operand.  *)
ConditionPair(q, j, cond) ==
    {Qualified(q, cond.left),
     IF IsNoReference(cond.right) THEN <<AliasOf(j.target), None>>
     ELSE Qualified(q, cond.right)}

ConditionSet(q, j) == {ConditionPair(q, j, j.on[i]) : i \in 1..Len(j.on)}

ProjectedCharacteristics(q) ==
    {Qualified(q, q.projections[i].reference) : i \in 1..Len(q.projections)}

JoinTargets(q) ==
    {AliasOf(q.from_clause.joins[i].target) : i \in 1..Len(q.from_clause.joins)}

EquivalentQueries(q, r) ==
    /\ ProjectedCharacteristics(q) = ProjectedCharacteristics(r)
    /\ JoinTargets(q) = JoinTargets(r)
    /\ \A i \in 1..Len(q.from_clause.joins) :
           \E k \in 1..Len(r.from_clause.joins) :
               /\ AliasOf(q.from_clause.joins[i].target)
                      = AliasOf(r.from_clause.joins[k].target)
               /\ ConditionSet(q, q.from_clause.joins[i])
                      = ConditionSet(r, r.from_clause.joins[k])

(* Every condition is a forward (entity) hop into the join's target: unary,*)
(* or source.role on one side and the target alias alone on the other      *)
ForwardCondition(j, cond) ==
    \/ IsNoReference(cond.right)
    \/ /\ is_identity(cond.right) /\ cond.right.entity = AliasOf(j.target)
       /\ Truthy(cond.left.characteristic)
    \/ /\ is_identity(cond.left) /\ cond.left.entity = AliasOf(j.target)
       /\ Truthy(cond.right.characteristic)

(* A statement with a root entity, characteristic projections only, each   *)
(* alias declared once and before it is used                               *)
PlainQuery(q) ==
    /\ q.from_clause.entities # <<>>
    /\ \A i \in 1..Len(q.projections) :
           /\ q.projections[i].type = "ProjectedCharacteristic"
           /\ Qualified(q, q.projections[i].reference)[1]
                  \in {RootAliasOf(q)} \cup JoinTargets(q)
    /\ \A i \in 1..Len(q.from_clause.joins) :
           LET j == q.from_clause.joins[i]
               earlier == {RootAliasOf(q)}
                              \cup {AliasOf(q.from_clause.joins[k].target) : k \in 1..(i - 1)}
           IN  /\ AliasOf(j.target) \notin earlier
               /\ \A c \in 1..Len(j.on) :
                      /\ ForwardCondition(j, j.on[c])
                      /\ ConditionPair(q, j, j.on[c])
                             \cap {<<a, ch>> : a \in earlier, ch \in {"b", "c", "d"}} # {}

(* C1: for every query Q whose joins use only forward (entity) hops,       *)
(* path2query(query2path(Q)) yields one statement with the projected       *)
(* characteristics of Q, its join targets and, per join, its conditions up *)
(* to swapping operands, a unary condition counting as its explicit form.  *)
C1_ForwardRoundTrip ==
    pc \in {"compiled", "round_trip"} /\ PlainQuery(query)
        => /\ IsOk(compiled)
           /\ pc = "round_trip"
                  => /\ IsOk(statement)
                     /\ Len(statement.value) = 1
                     /\ EquivalentQueries(query, statement.value[1])

C11_ReverseOfCompiledReturns ==
    pc = "round_trip" /\ query.from_clause.entities # <<>>
        => /\ IsOk(statement)
           /\ Len(statement.value) = 1

(* C15: in every alias map query2path returns for a query with a root     *)
(* entity, whatever its joins, the root alias maps to exactly one path,    *)
(* that path has length zero, and every path of the map has the root       *)
(* entity's type as start_type.                                            *)
C15_RootAliasInvariant ==
    pc = "compiled" /\ IsOk(compiled) /\ query.from_clause.entities # <<>>
        => /\ Get(compiled.value.alias_map, RootAliasOf(query))
                  = <<ParticipantPath(query.from_clause.entities[1].name, <<>>)>>
           /\ \A e \in Range(compiled.value.alias_map) :
                  \A p_ \in Range(e.v) :
                      p_.start_type = query.from_clause.entities[1].name

(* The statement q with the operands of condition c of join j exchanged *)
SwapOperands(q, j, c) ==
    [q EXCEPT !.from_clause.joins[j].on[c] = Equivalence(@.right, @.left)]

(* C16: for every join and every binary equivalence condition in it,      *)
(* exchanging the condition's left and right operands changes neither the  *)
(* alias map nor the projected paths query2path returns, for the forward   *)
(* shape, the backward shape, and operands without alias qualifier.        *)
C16_OperandOrderIrrelevant ==
    pc = "compiled"
        => \A j \in 1..Len(query.from_clause.joins) :
               \A c \in 1..Len(query.from_clause.joins[j].on) :
                   ~IsNoReference(query.from_clause.joins[j].on[c].right)
                       => query2path(SwapOperands(query, j, c), model) = compiled

(* No path is in the path lists of two different aliases *)
PathsUnshared(alias_map_) ==
    \A a, b \in 1..Len(alias_map_) :
        Range(alias_map_[a].v) \cap Range(alias_map_[b].v) # {} => a = b

(* C18: in every alias map query2path returns no path belongs to the path  *)
(* lists of two different aliases, so that the alias path2query finds for  *)
(* a path prefix is the only alias holding that prefix.                    *)
C18_PathsUnsharedCompiled ==
    pc = "compiled" /\ IsOk(compiled) => PathsUnshared(compiled.value.alias_map)

(* The concatenation of a list of lists *)
RECURSIVE Flatten(_)
Flatten(lists) ==
    IF lists = <<>> THEN <<>> ELSE Head(lists) \o Flatten(Tail(lists))

(* The alias a characteristic projection of the compiled statement names *)
ProjectionAliasOf(proj) ==
    IF Truthy(proj.reference.entity) THEN proj.reference.entity
    ELSE RootAliasOf(query)

(* The paths of the alias a projection names, each extended by the entity  *)
(* hop of the projected characteristic; none for an alias not in the map   *)
NamedTerminals(proj) ==
    IF ~HasKey(compiled.value.alias_map, ProjectionAliasOf(proj)) THEN <<>>
    ELSE LET bases == Get(compiled.value.alias_map, ProjectionAliasOf(proj))
         IN  [i \in 1..Len(bases) |->
                 ParticipantPath(query.from_clause.entities[1].name,
                     bases[i].resolutions
                         \o <<EntityResolution(proj.reference.characteristic)>>)]

OnlyNamedProjections ==
    \A i \in 1..Len(query.projections) :
        query.projections[i].type = "ProjectedCharacteristic"

(* C23: a projection alias.name contributes one terminal path per path of  *)
(* the alias in the alias map, that path extended by the entity hop .name, *)
(* in path order; without qualifier the alias is the root alias; an alias  *)
(* not in the alias map contributes no path.  The terminal path list of a  *)
(* statement that projects named characteristics only is these lists in    *)
(* projection order.                                                       *)
C23_NamedProjections ==
    pc \in {"compiled", "round_trip"} /\ IsOk(compiled)
        /\ query.from_clause.entities # <<>> /\ OnlyNamedProjections
        => compiled.value.projected_paths
               = Flatten([i \in 1..Len(query.projections) |->
                             NamedTerminals(query.projections[i])])

(* A statement was compiled that projects an unqualified name, with the    *)
(* root alias reached by two paths or more, and a name of an alias the map *)
(* does not have                                                           *)
C23_Witness ==
    /\ pc = "compiled"
    /\ IsOk(compiled)
    /\ query.from_clause.entities # <<>>
    /\ OnlyNamedProjections
    /\ \E i, k \in 1..Len(query.projections) :
           /\ query.projections[i].reference.entity = None
           /\ Len(NamedTerminals(query.projections[i])) >= 2
           /\ ~HasKey(compiled.value.alias_map,
                      ProjectionAliasOf(query.projections[k]))

(* The alias a wildcard projection of the compiled statement stands for *)
WildcardAliasOf(proj) ==
    IF proj.type = "EntityWildcard" THEN proj.entity ELSE RootAliasOf(query)

(* The type the statement declares for an alias: the target type of the    *)
(* last join that names it, else the root type                             *)
DeclaredType(a) ==
    LET named == {i \in 1..Len(query.from_clause.joins) :
                     AliasOf(query.from_clause.joins[i].target) = a}
    IN  IF named = {} THEN query.from_clause.entities[1].name
        ELSE query.from_clause.joins[CHOOSE i \in named :
                                        \A k \in named : k <= i].target.name

(* The rolenames of the `composes` facts of the alias's type, sorted *)
WildcardRolenames(a) ==
    SortedStrings({model[i].rolename : i \in
        {k \in 1..Len(model) : /\ model[k].subject = DeclaredType(a)
                               /\ model[k].predicate = "composes"}})

OnlyWildcards ==
    \A i \in 1..Len(query.projections) :
        query.projections[i].type \in {"AllCharacteristics", "EntityWildcard"}

(* C24 as stated: with a schema model a wildcard contributes exactly one   *)
(* terminal path per distinct rolename of the alias's type, also when the  *)
(* alias is reached by more than one path.                                 *)
C24_OnePathPerRolename ==
    pc = "compiled" /\ IsOk(compiled) /\ query.from_clause.entities # <<>>
        /\ OnlyWildcards /\ model # <<>>
        /\ (\A i \in 1..Len(query.projections) :
               /\ HasKey(compiled.value.alias_map,
                         WildcardAliasOf(query.projections[i]))
               /\ Get(compiled.value.alias_map,
                      WildcardAliasOf(query.projections[i])) # <<>>)
        => Len(compiled.value.projected_paths)
               = Len(Flatten([i \in 1..Len(query.projections) |->
                                 WildcardRolenames(
                                     WildcardAliasOf(query.projections[i]))]))

(* The paths of the alias, each extended by the entity hop of one rolename *)
RolenameTerminals(a, rolename) ==
    LET bases == Get(compiled.value.alias_map, a)
    IN  [i \in 1..Len(bases) |->
            ParticipantPath(query.from_clause.entities[1].name,
                bases[i].resolutions \o <<EntityResolution(rolename)>>)]

(* What a wildcard contributes: for each rolename in sorted order, every   *)
(* path of the alias extended by that rolename                             *)
WildcardTerminals(proj) ==
    IF model = <<>> \/ ~HasKey(compiled.value.alias_map, WildcardAliasOf(proj))
    THEN <<>>
    ELSE Flatten([i \in 1..Len(WildcardRolenames(WildcardAliasOf(proj))) |->
                     RolenameTerminals(WildcardAliasOf(proj),
                         WildcardRolenames(WildcardAliasOf(proj))[i])])

(* C24: compiled with a schema model, a wildcard projection contributes    *)
(* one terminal path per distinct `composes` rolename of the alias's type  *)
(* and per path of the alias (for each rolename in sorted order, each path *)
(* of the alias in path order, extended by that entity hop); compiled      *)
(* without a schema model it contributes no path.                          *)
C24_WildcardPerRolenameAndPath ==
    pc \in {"compiled", "round_trip"} /\ IsOk(compiled)
        /\ query.from_clause.entities # <<>> /\ OnlyWildcards
        => compiled.value.projected_paths
               = Flatten([i \in 1..Len(query.projections) |->
                             WildcardTerminals(query.projections[i])])

(* A wildcard was compiled with a schema model for an alias that has two   *)
(* paths or more and a type with a `composes` fact                         *)
C24_Witness ==
    /\ pc = "compiled"
    /\ IsOk(compiled)
    /\ query.from_clause.entities # <<>>
    /\ query.projections # <<>>
    /\ OnlyWildcards
    /\ model # <<>>
    /\ \E i \in 1..Len(query.projections) :
           /\ HasKey(compiled.value.alias_map, WildcardAliasOf(query.projections[i]))
           /\ Len(Get(compiled.value.alias_map,
                      WildcardAliasOf(query.projections[i]))) >= 2
           /\ WildcardRolenames(WildcardAliasOf(query.projections[i])) # <<>>

(***************************************************************************)
(* SpecCompile: one call of query2path, run loop iteration by loop         *)
(* iteration.  frame holds the locals of the call: the alias map and the   *)
(* alias types built so far, the positions j, c, i of the three nested     *)
(* loops (joins, conditions, parent paths) and the source alias and hop of *)
(* the condition being applied.                                            *)
(***************************************************************************)
(* Longest hop sequence the call may build *)
MaxPathLen == 4

StepProjectionLists ==
    {<<>>, <<AllCharacteristics, EntityWildcard("B")>>}

(* The joins that reach the parent-path loop or end the call before it:   *)
(* entity hops (unary, explicit), association hops onto B, b2, c1 and the  *)
(* root alias, a repeated condition, a diamond, and a condition on the     *)
(* join's own target alias                                                 *)
StepJoinUniverse ==
    {j \in JoinUniverse :
        \/ j.target.name = "A"
        \/ j.target.alias = "b2"
        \/ j.target = TargetC /\ Len(j.on) = 2
        \/ j.target = TargetB
               /\ j.on[1] \in {Unary(Reference("A", "b")),
                                Equivalence(Reference("A", "b"), Reference("B", None)),
                                Equivalence(Reference("B", "b"), Reference("A", None))}}

StepQueries ==
    {QueryStatement(projections, FromClause(entities, joins), None) :
         projections \in StepProjectionLists, entities \in EntityLists,
         joins \in SeqsUpTo(StepJoinUniverse, MaxJoins)}

InitCompile ==
    /\ pc = "q2p_call"
    /\ query \in StepQueries
    /\ model = ForwardModel
    /\ compiled = Unused /\ frame = Unused
    /\ IdlePath /\ IdleParser /\ IdleReverse

FrameJoin == query.from_clause.joins[frame.j]

FrameTargetAlias == AliasOf(FrameJoin.target)

FrameStartType == query.from_clause.entities[1].name

(* Lines 67-76: the early return, or the seeding of the root alias *)
Q2P_Enter ==
    /\ pc = "q2p_call"
    /\ IF query.from_clause.entities = <<>>
       THEN /\ compiled' = Ok([alias_map |-> <<>>, projected_paths |-> <<>>])
            /\ pc' = "q2p_done"
            /\ frame' = frame
       ELSE /\ frame' = [alias_map |-> <<[k |-> RootAliasOf(query),
                                          v |-> <<ParticipantPath(
                                                    FrameStartType, <<>>)>>]>>,
                         alias_types |-> <<[k |-> RootAliasOf(query),
                                            v |-> FrameStartType]>>,
                         j |-> 1, c |-> 1, i |-> 1,
                         source_alias |-> None, found_res |-> None]
            /\ pc' = "q2p_joins"
            /\ compiled' = compiled
    /\ UNCHANGED <<ppText, ppPath, ppBack, ppCompare, qText, qAst, qBack, model,
                   query, partial_map, alias_map, projected_paths, statement,
                   recompiled>>

(* Lines 79-85: the head of `for join in from_clause.joins`; after the     *)
(* last join, lines 117-135 build the projected paths and return.          *)
Q2P_Join ==
    /\ pc = "q2p_joins"
    /\ IF frame.j > Len(query.from_clause.joins)
       THEN /\ compiled' = Ok([alias_map |-> frame.alias_map,
                               projected_paths |->
                                   ProcessProjections(frame.alias_map,
                                       frame.alias_types, FrameStartType,
                                       RootAliasOf(query), model,
                                       query.projections)])
            /\ pc' = "q2p_done"
            /\ frame' = frame
       ELSE /\ frame' = [frame EXCEPT
                            !.alias_types = Put(@, FrameTargetAlias,
                                                FrameJoin.target.name),
                            !.alias_map = IF HasKey(@, FrameTargetAlias) THEN @
                                          ELSE Put(@, FrameTargetAlias, <<>>),
                            !.c = 1]
            /\ pc' = "q2p_conditions"
            /\ compiled' = compiled
    /\ UNCHANGED <<ppText, ppPath, ppBack, ppCompare, qText, qAst, qBack, model,
                   query, partial_map, alias_map, projected_paths, statement,
                   recompiled>>

(* The if/elif chain of lines 88-108 on the condition the frame is at *)
FrameClassified ==
    ClassifyCondition(frame.alias_map, RootAliasOf(query), FrameTargetAlias,
                      FrameJoin.target.name, FrameJoin.on[frame.c])

(* Lines 87-110: the head of `for cond in join.on`, the classification of  *)
(* the condition and the test before the parent loop.                      *)
Q2P_Condition ==
    /\ pc = "q2p_conditions"
    /\ IF frame.c > Len(FrameJoin.on)
       THEN /\ frame' = [frame EXCEPT !.j = @ + 1]
            /\ pc' = "q2p_joins"
            /\ compiled' = compiled
       ELSE IF ~IsOk(FrameClassified.found_res)
       THEN /\ compiled' = FrameClassified.found_res
            /\ pc' = "q2p_done"
            /\ frame' = frame
       ELSE IF FrameClassified.matched
               /\ HasKey(frame.alias_map, FrameClassified.source_alias)
       THEN /\ frame' = [frame EXCEPT
                            !.source_alias = FrameClassified.source_alias,
                            !.found_res = FrameClassified.found_res.value,
                            !.i = 1]
            /\ pc' = "q2p_parents"
            /\ compiled' = compiled
       ELSE /\ frame' = [frame EXCEPT !.c = @ + 1]
            /\ pc' = "q2p_conditions"
            /\ compiled' = compiled
    /\ UNCHANGED <<ppText, ppPath, ppBack, ppCompare, qText, qAst, qBack, model,
                   query, partial_map, alias_map, projected_paths, statement,
                   recompiled>>

(* new_path of line 112 for the parent path the frame is at *)
FrameNewPath ==
    ParticipantPath(FrameStartType,
        Append(Get(frame.alias_map, frame.source_alias)[frame.i].resolutions,
               frame.found_res))

(* Lines 111-114: one iteration of `for parent_path in                     *)
(* alias_map[source_alias]`; the list is read live, so a path appended to  *)
(* it by this loop is visited by the same loop.                            *)
Q2P_Parent ==
    /\ pc = "q2p_parents"
    /\ IF frame.i > Len(Get(frame.alias_map, frame.source_alias))
       THEN /\ frame' = [frame EXCEPT !.c = @ + 1]
            /\ pc' = "q2p_conditions"
       ELSE /\ Len(FrameNewPath.resolutions) <= MaxPathLen
            /\ frame' = [frame EXCEPT
                            !.alias_map =
                                IF ParticipantPath_str(FrameNewPath)
                                       \in PathStrings(Get(@, FrameTargetAlias))
                                THEN @
                                ELSE Put(@, FrameTargetAlias,
                                         Append(Get(@, FrameTargetAlias),
                                                FrameNewPath)),
                            !.i = @ + 1]
            /\ pc' = "q2p_parents"
    /\ UNCHANGED <<ppText, ppPath, ppBack, ppCompare, qText, qAst, qBack, model,
                   query, compiled, partial_map, alias_map, projected_paths,
                   statement, recompiled>>

NextCompile == Q2P_Enter \/ Q2P_Join \/ Q2P_Condition \/ Q2P_Parent

(* The call is one sequential computation: it keeps running until it       *)
(* returns or raises.                                                      *)
SpecCompile == InitCompile /\ [][NextCompile]_vars /\ WF_vars(NextCompile)

(* The step-by-step call ends with what query2path returns or raises *)
StepsAgree == pc = "q2p_done" => compiled = query2path(query, model)

(* C14: query2path terminates on every finite QueryStatement: every call  *)
(* returns or raises, also for a join one of whose conditions takes the    *)
(* join's own target alias as its source after that alias has a path, and  *)
(* for a join whose target alias is the root alias.                        *)
C14_Query2PathTerminates == <>(pc = "q2p_done")

(* The call ended at a unary condition on the join's own target alias,     *)
(* reached after an earlier condition had given that alias a path          *)
C14_Witness ==
    /\ pc = "q2p_done"
    /\ query.from_clause.entities # <<>>
    /\ frame.j <= Len(query.from_clause.joins)
    /\ frame.c <= Len(FrameJoin.on)
    /\ IsNoReference(FrameJoin.on[frame.c].right)
    /\ FrameJoin.on[frame.c].left.entity = FrameTargetAlias
    /\ Get(frame.alias_map, FrameTargetAlias) # <<>>

(* The path list the alias map under construction gives the join target *)
FrameTargetPaths == Get(frame.alias_map, FrameTargetAlias)

(* C17: at every point of the join loop no alias's path list holds two     *)
(* structurally equal paths; an iteration that derives a path already      *)
(* present under the target alias leaves the list unchanged, and one that  *)
(* derives a path not yet present appends it, also when the alias already  *)
(* has paths (diamond accumulation).                                       *)
C17_PathsDeduplicated ==
    /\ [](pc \in {"q2p_joins", "q2p_conditions", "q2p_parents", "q2p_done"}
              /\ query.from_clause.entities # <<>>
          => \A e \in Range(frame.alias_map) :
                 \A a, b \in 1..Len(e.v) : e.v[a] = e.v[b] => a = b)
    /\ [][pc = "q2p_parents"
              /\ frame.i <= Len(Get(frame.alias_map, frame.source_alias))
          => Get(frame'.alias_map, FrameTargetAlias)
                 = IF FrameNewPath \in Range(FrameTargetPaths)
                   THEN FrameTargetPaths
                   ELSE Append(FrameTargetPaths, FrameNewPath)]_vars

(* The call returned a map in which a second path was added to an alias    *)
(* that already had one                                                    *)
C17_Witness ==
    /\ pc = "q2p_done"
    /\ IsOk(compiled)
    /\ \E e \in Range(compiled.value.alias_map) : Len(e.v) >= 2

(***************************************************************************)
(* SpecReverse: terminal paths and a partial alias map are completed by    *)
(* _reconstruct_alias_map (or the map is used as written), path2query      *)
(* builds the statement, and query2path compiles that statement again.     *)
(***************************************************************************)
(* Most terminal paths handed to one call *)
MaxTerminals == 2

(* The schema of tests/test_gordon.py (examples/gordon.txt) *)
GordonModel ==
    <<UddlTuple("AirSystem", "composes", "NavigationSystem", "navSystem"),
      UddlTuple("AirSystem", "composes", "AirFrame", "airFrame"),
      UddlTuple("Observe", "associates", "NavigationSystem", "observer"),
      UddlTuple("Observe", "associates", "AirFrame", "observed"),
      UddlTuple("Observe", "composes", "Validity", "validity"),
      UddlTuple("AirFrame", "composes", "Position", "pos"),
      UddlTuple("NavigationSystem", "composes", "Mode", "mode")>>

(* AirSystem.navSystem->observer[Observe] *)
GordonObserve ==
    <<EntityResolution("navSystem"), AssociationResolution("observer", "Observe")>>

(* AirSystem.navSystem->observer[Observe].observed.pos *)
GordonPos ==
    ParticipantPath("AirSystem",
        GordonObserve \o <<EntityResolution("observed"), EntityResolution("pos")>>)

(* AirSystem.navSystem->observer[Observe].observer.mode *)
GordonMode ==
    ParticipantPath("AirSystem",
        GordonObserve \o <<EntityResolution("observer"), EntityResolution("mode")>>)

(* AirSystem.navSystem->observer[Observe].validity *)
GordonValidity ==
    ParticipantPath("AirSystem", GordonObserve \o <<EntityResolution("validity")>>)

GordonTerminals == {GordonPos, GordonMode, GordonValidity}

(* The partial maps of test_slide_3 and test_slide_4 *)
GordonAirFrame ==
    [k |-> "AirFrame",
     v |-> <<ParticipantPath("AirSystem",
                 GordonObserve \o <<EntityResolution("observed")>>),
             ParticipantPath("AirSystem", <<EntityResolution("airFrame")>>)>>]

GordonNavigationSystem ==
    [k |-> "NavigationSystem",
     v |-> <<ParticipantPath("AirSystem", <<EntityResolution("navSystem")>>),
             ParticipantPath("AirSystem",
                 GordonObserve \o <<EntityResolution("observer")>>)>>]

GordonSeeds == {<<>>, <<GordonAirFrame>>, <<GordonAirFrame, GordonNavigationSystem>>}

ViaB == AssociationResolution("b", "B")

ViaC == AssociationResolution("c", "C")

ViaD == AssociationResolution("d", "D")

PlainTerminals ==
    {ParticipantPath("A", <<EntityResolution("x")>>),
     ParticipantPath("A", <<ViaB, EntityResolution("x")>>),
     ParticipantPath("A", <<ViaB, ViaD, EntityResolution("x")>>),
     ParticipantPath("A", <<ViaC, ViaD, EntityResolution("y")>>),
     ParticipantPath("A", <<ViaB, ViaC, EntityResolution("x")>>),
     ParticipantPath("A", <<EntityResolution("b"), EntityResolution("x")>>)}

(* D reached through B and through C, by association hops *)
SeedDiamond ==
    <<[k |-> "D", v |-> <<ParticipantPath("A", <<ViaB, ViaD>>),
                          ParticipantPath("A", <<ViaC, ViaD>>)>>]>>

(* D reached by A.b.d and by A.c.d *)
SeedEntityDiamond ==
    <<[k |-> "D",
       v |-> <<ParticipantPath("A", <<EntityResolution("b"), EntityResolution("d")>>),
               ParticipantPath("A", <<EntityResolution("c"), EntityResolution("d")>>)>>]>>

(* B and C, each reached directly and through the other *)
SeedMutual ==
    <<[k |-> "B", v |-> <<ParticipantPath("A", <<ViaB>>),
                          ParticipantPath("A", <<ViaC, ViaB>>)>>],
      [k |-> "C", v |-> <<ParticipantPath("A", <<ViaC>>),
                          ParticipantPath("A", <<ViaB, ViaC>>)>>]>>

(* A map written out in full, root first *)
SeedWithRoot ==
    <<[k |-> "A", v |-> <<ParticipantPath("A", <<>>)>>],
      [k |-> "B", v |-> <<ParticipantPath("A", <<ViaB>>)>>],
      [k |-> "D", v |-> <<ParticipantPath("A", <<ViaB, ViaD>>),
                          ParticipantPath("A", <<ViaC, ViaD>>)>>]>>

(* An alias with no path *)
SeedEmptyAlias == <<[k |-> "B", v |-> <<>>]>>

PlainSeeds ==
    {<<>>, SeedDiamond, SeedEntityDiamond, SeedMutual, SeedWithRoot, SeedEmptyAlias}

(* D reached directly and, three hops deep, through B and C *)
SeedShortcut ==
    <<[k |-> "A", v |-> <<ParticipantPath("A", <<>>)>>],
      [k |-> "B", v |-> <<ParticipantPath("A", <<ViaB>>)>>],
      [k |-> "C", v |-> <<ParticipantPath("A", <<ViaB, ViaC>>)>>],
      [k |-> "D", v |-> <<ParticipantPath("A", <<ViaD>>),
                          ParticipantPath("A", <<ViaB, ViaC, ViaD>>)>>]>>

(* C and D both behind B, C two hops deep, D also reached directly *)
SeedLevels ==
    <<[k |-> "A", v |-> <<ParticipantPath("A", <<>>)>>],
      [k |-> "B", v |-> <<ParticipantPath("A", <<ViaB>>)>>],
      [k |-> "C", v |-> <<ParticipantPath("A", <<ViaB, ViaC>>)>>],
      [k |-> "D", v |-> <<ParticipantPath("A", <<ViaD>>),
                          ParticipantPath("A", <<ViaB, ViaD>>)>>]>>

DepthSeeds == {SeedShortcut, SeedLevels}

(* Terminal paths whose prefixes the maps of DepthSeeds alias already *)
DepthTerminals ==
    {ParticipantPath("A", <<EntityResolution("x")>>),
     ParticipantPath("A", <<ViaB, ViaC, EntityResolution("x")>>)}

InitReverse ==
    /\ pc = "paths"
    /\ \/ /\ model = <<>>
          /\ projected_paths \in SeqsUpTo(PlainTerminals, MaxTerminals)
          /\ partial_map \in PlainSeeds
       \/ /\ model = GordonModel
          /\ projected_paths \in SeqsUpTo(GordonTerminals, MaxTerminals)
          /\ partial_map \in GordonSeeds
       \/ /\ model = <<>>
          /\ projected_paths \in SeqsUpTo(DepthTerminals, MaxTerminals)
          /\ partial_map \in DepthSeeds
    /\ alias_map = Unused /\ statement = Unused /\ recompiled = Unused
    /\ IdlePath /\ IdleParser /\ IdleForward

(* _reconstruct_alias_map(model, paths, partial_map) *)
Reconstruct ==
    /\ pc = "paths"
    /\ alias_map' = _reconstruct_alias_map(model, projected_paths, partial_map)
    /\ pc' = "alias_map"
    /\ UNCHANGED <<ppCompare, frame, ppText, ppPath, ppBack, qText, qAst, qBack, model, query,
                   compiled, partial_map, projected_paths, statement, recompiled>>

(* The map is handed to path2query as it was written *)
UseSeed ==
    /\ pc = "paths"
    /\ alias_map' = partial_map
    /\ pc' = "alias_map"
    /\ UNCHANGED <<ppCompare, frame, ppText, ppPath, ppBack, qText, qAst, qBack, model, query,
                   compiled, partial_map, projected_paths, statement, recompiled>>

(* path2query(alias_map, paths, model) *)
Path2Query ==
    /\ pc = "alias_map"
    /\ \E hash_order \in HashOrders(alias_map) :
           statement' = path2query(alias_map, projected_paths, model, hash_order)
    /\ pc' = "reversed"
    /\ UNCHANGED <<ppCompare, frame, ppText, ppPath, ppBack, qText, qAst, qBack, model, query,
                   compiled, partial_map, alias_map, projected_paths, recompiled>>

(* query2path(queries[0], model) on the statement path2query returned *)
Recompile ==
    /\ pc = "reversed"
    /\ IsOk(statement)
    /\ statement.value # <<>>
    /\ recompiled' = query2path(statement.value[1], model)
    /\ pc' = "recompiled"
    /\ UNCHANGED <<ppCompare, frame, ppText, ppPath, ppBack, qText, qAst, qBack, model, query,
                   compiled, partial_map, alias_map, projected_paths, statement>>

NextReverse == Reconstruct \/ UseSeed \/ Path2Query \/ Recompile

SpecReverse == InitReverse /\ [][NextReverse]_vars

(* The map has a root alias, gives every alias a path and aliases the      *)
(* prefix of every terminal path                                           *)
PrefixesAliased(alias_map_, paths) ==
    /\ alias_map_ # <<>>
    /\ RootCandidates(alias_map_) # <<>>
    /\ \A i \in 1..Len(alias_map_) : alias_map_[i].v # <<>>
    /\ \A i \in 1..Len(paths) :
           /\ paths[i].resolutions # <<>>
           /\ FindAlias(alias_map_, ButLast(paths[i].resolutions)) # None

(* C2: for every alias map M with a root alias and every list P of         *)
(* terminal paths whose prefixes are aliased in M, query2path of the       *)
(* statement path2query(M, P, model) returns has the aliases of M, for     *)
(* each alias the set of paths of M, and a path list containing P; also    *)
(* when M has diamond aliases whose paths pass through each other.         *)
C2_ReverseRoundTrip ==
    pc \in {"reversed", "recompiled"} /\ PrefixesAliased(alias_map, projected_paths)
        => /\ IsOk(statement)
           /\ Len(statement.value) = 1
           /\ pc = "recompiled"
                  => /\ IsOk(recompiled)
                     /\ KeySet(recompiled.value.alias_map) = KeySet(alias_map)
                     /\ \A a \in KeySet(alias_map) :
                            Range(Get(recompiled.value.alias_map, a))
                                = Range(Get(alias_map, a))
                     /\ Range(projected_paths)
                            \subseteq Range(recompiled.value.projected_paths)

(* The joins of the statement path2query returned *)
EmittedJoins == statement.value[1].from_clause.joins

(* C4: for every non-root alias the Join path2query emits has one          *)
(* Equivalence per path of the alias; an alias D seeded with A.b.d and     *)
(* A.c.d and completed by _reconstruct_alias_map gets a Join with exactly  *)
(* two equivalences, whatever terminal paths are projected.                *)
C4_OneEquivalencePerPath ==
    pc = "reversed"
        => /\ IsOk(statement) /\ statement.value # <<>>
                  => \A i \in 1..Len(EmittedJoins) :
                         Len(EmittedJoins[i].on)
                             = Len(Get(alias_map, EmittedJoins[i].target.alias))
           /\ partial_map = SeedEntityDiamond /\ projected_paths # <<>>
                  /\ alias_map = _reconstruct_alias_map(model, projected_paths,
                                                        partial_map)
                  => /\ IsOk(statement)
                     /\ \E i \in 1..Len(EmittedJoins) :
                            /\ EmittedJoins[i].target.alias = "D"
                            /\ Len(EmittedJoins[i].on) = 2

(* C5: the statement path2query returns has exactly one Join per non-root  *)
(* alias: the join target aliases are pairwise distinct and are exactly    *)
(* the non-root aliases of the alias map.                                  *)
C5_OneJoinPerAlias ==
    pc = "reversed" /\ IsOk(statement) /\ statement.value # <<>>
        => /\ Len(statement.value) = 1
           /\ \A i, k \in 1..Len(EmittedJoins) :
                  EmittedJoins[i].target.alias = EmittedJoins[k].target.alias => i = k
           /\ {EmittedJoins[i].target.alias : i \in 1..Len(EmittedJoins)}
                  = KeySet(alias_map)
                        \ {statement.value[1].from_clause.entities[1].alias}

(* A statement was returned for a map in which an alias has several paths *)
C5_Witness ==
    /\ pc = "reversed"
    /\ IsOk(statement)
    /\ statement.value # <<>>
    /\ Len(EmittedJoins) >= 2
    /\ \E i \in 1..Len(EmittedJoins) :
           Len(Get(alias_map, EmittedJoins[i].target.alias)) >= 2

(* C6: with the Gordon schema, the single path                             *)
(* AirSystem.navSystem->observer[Observe].observed.pos, its alias map      *)
(* built by _reconstruct_alias_map, reverse-compiles to the projection     *)
(* AirFrame.pos, root AirSystem and the joins NavigationSystem, Observe,   *)
(* AirFrame in that order, on AirSystem.navSystem = NavigationSystem,      *)
(* Observe.observer = NavigationSystem and Observe.observed = AirFrame.    *)
C6_GordonSlide2 ==
    pc = "reversed" /\ model = GordonModel /\ projected_paths = <<GordonPos>>
        /\ partial_map = <<>>
        /\ alias_map = _reconstruct_alias_map(model, projected_paths, partial_map)
        => /\ IsOk(statement)
           /\ Len(statement.value) = 1
           /\ LET q == statement.value[1]
              IN  /\ ProjectedCharacteristics(q) = {<<"AirFrame", "pos">>}
                  /\ q.from_clause.entities[1].name = "AirSystem"
                  /\ Len(EmittedJoins) = 3
                  /\ [i \in 1..3 |-> AliasOf(EmittedJoins[i].target)]
                         = <<"NavigationSystem", "Observe", "AirFrame">>
                  /\ ConditionSet(q, EmittedJoins[1])
                         = {{<<"AirSystem", "navSystem">>, <<"NavigationSystem", None>>}}
                  /\ ConditionSet(q, EmittedJoins[2])
                         = {{<<"Observe", "observer">>, <<"NavigationSystem", None>>}}
                  /\ ConditionSet(q, EmittedJoins[3])
                         = {{<<"Observe", "observed">>, <<"AirFrame", None>>}}

(* The non-root aliases in alias-map entry order *)
EntryOrder(alias_map_) ==
    SelectSeq(Keys(alias_map_), LAMBDA k : k # RootCandidates(alias_map_)[1])

(* The join target aliases of a statement, in join order *)
JoinOrder(q) ==
    [i \in 1..Len(q.from_clause.joins) |-> AliasOf(q.from_clause.joins[i].target)]

(* C12: the join sequence of the statement path2query returns is fixed by  *)
(* the alias map with its entry order, the terminal paths and the schema:  *)
(* every run gives the join order in which aliases that become ready in    *)
(* the same step with equal minimum depth follow alias-map entry order.    *)
C12_JoinOrderDetermined ==
    pc = "reversed" /\ IsOk(statement) /\ statement.value # <<>>
        => JoinOrder(statement.value[1])
               = JoinOrder(path2query(alias_map, projected_paths, model,
                                      EntryOrder(alias_map)).value[1])

(* The aliases a depends on, directly or through other aliases, found in   *)
(* at most n further steps                                                 *)
RECURSIVE DependsWithin(_, _, _, _)
DependsWithin(alias_map_, root_alias, a, n) ==
    LET direct == Dependencies(alias_map_, root_alias, a)
    IN  IF n = 0 THEN direct
        ELSE direct \cup UNION {DependsWithin(alias_map_, root_alias, d, n - 1) :
                                    d \in direct}

(* No alias depends on itself through a chain of dependencies *)
AcyclicDependencies(alias_map_) ==
    LET root_alias == RootCandidates(alias_map_)[1]
    IN  \A a \in KeySet(alias_map_) \ {root_alias} :
            a \notin DependsWithin(alias_map_, root_alias, a, Len(alias_map_))

(* The aliases joined before the i-th Join of the returned statement *)
JoinedBefore(i) == {AliasOf(EmittedJoins[k].target) : k \in 1..(i - 1)}

(* C19: when the dependency relation among the aliases is acyclic, the     *)
(* statement path2query returns has each alias's Join after the Joins of   *)
(* all aliases it depends on, and every operand of every condition of a    *)
(* Join names the root alias, the Join's own alias or an alias joined      *)
(* earlier.                                                                *)
C19_JoinsFollowDependencies ==
    pc = "reversed" /\ IsOk(statement) /\ statement.value # <<>>
        /\ AcyclicDependencies(alias_map)
        => \A i \in 1..Len(EmittedJoins) :
               /\ Dependencies(alias_map, RootAliasOf(statement.value[1]),
                               AliasOf(EmittedJoins[i].target))
                      \subseteq JoinedBefore(i)
               /\ \A c \in 1..Len(EmittedJoins[i].on) :
                      {EmittedJoins[i].on[c].left.entity,
                       EmittedJoins[i].on[c].right.entity}
                          \subseteq {RootAliasOf(statement.value[1]),
                                     AliasOf(EmittedJoins[i].target)}
                                        \cup JoinedBefore(i)

(* A statement was returned for an acyclic map in which a joined alias     *)
(* depends on another joined alias                                         *)
C19_Witness ==
    /\ pc = "reversed"
    /\ IsOk(statement)
    /\ statement.value # <<>>
    /\ AcyclicDependencies(alias_map)
    /\ \E i \in 1..Len(EmittedJoins) :
           Dependencies(alias_map, RootAliasOf(statement.value[1]),
                        AliasOf(EmittedJoins[i].target)) # {}

(* The terminal paths whose prefix (the path minus its last hop) is in the *)
(* path set of some alias, in input order                                  *)
AliasedTerminals ==
    SelectSeq(projected_paths,
        LAMBDA p_ : \E a \in KeySet(alias_map) :
                       \E p2 \in Range(Get(alias_map, a)) :
                           p2.resolutions = ButLast(p_.resolutions))

(* C25: the projections of the returned statement are, in input order, one *)
(* ProjectedCharacteristic per terminal path whose prefix is in the path   *)
(* set of an alias: its alias is that alias (the first in the map that     *)
(* holds the prefix), its characteristic the rolename of the last hop; a   *)
(* terminal path whose prefix no alias holds has no projection, and there  *)
(* are no other projections.                                               *)
C25_ProjectionPerTerminal ==
    pc = "reversed" /\ IsOk(statement) /\ statement.value # <<>>
        => LET projections == statement.value[1].projections
           IN  /\ Len(projections) = Len(AliasedTerminals)
               /\ \A i \in 1..Len(AliasedTerminals) :
                      LET hops == AliasedTerminals[i].resolutions
                      IN  /\ projections[i].type = "ProjectedCharacteristic"
                          /\ projections[i].reference.characteristic
                                 = hops[Len(hops)].rolename
                          /\ projections[i].reference.entity
                                 = FindAlias(alias_map, ButLast(hops))
                          /\ \E p2 \in Range(Get(alias_map,
                                               projections[i].reference.entity)) :
                                 p2.resolutions = ButLast(hops)

(* A statement was returned for terminal paths of which one has its prefix *)
(* under a join alias and one has a prefix that no alias holds             *)
C25_Witness ==
    /\ pc = "reversed"
    /\ IsOk(statement)
    /\ statement.value # <<>>
    /\ Len(AliasedTerminals) < Len(projected_paths)
    /\ \E i \in 1..Len(statement.value[1].projections) :
           statement.value[1].projections[i].reference.entity
               # RootAliasOf(statement.value[1])

(***************************************************************************)
(* SpecOrder: one call of path2query with its ordering loop run pass by    *)
(* pass.  frame holds the locals of the call: root_alias, the iteration    *)
(* order of the set `remaining`, sorted_aliases, remaining and processed.  *)
(* The alias map comes from _reconstruct_alias_map or is used as written.  *)
(***************************************************************************)
(* Lines 142-170: the early return, the root alias, the loop's locals *)
P2Q_Enter ==
    /\ pc = "alias_map"
    /\ IF alias_map = <<>>
       THEN /\ statement' = Ok(<<>>)
            /\ pc' = "p2q_done"
            /\ frame' = frame
       ELSE IF RootCandidates(alias_map) = <<>>
       THEN /\ statement' = Raise("StopIteration")
            /\ pc' = "p2q_done"
            /\ frame' = frame
       ELSE /\ \E hash_order \in HashOrders(alias_map) :
                   frame' = [root_alias |-> RootCandidates(alias_map)[1],
                             hash_order |-> hash_order,
                             sorted_aliases |-> <<>>,
                             remaining |-> KeySet(alias_map)
                                               \ {RootCandidates(alias_map)[1]},
                             processed |-> {RootCandidates(alias_map)[1]}]
            /\ pc' = "p2q_ordering"
            /\ statement' = statement
    /\ UNCHANGED <<ppText, ppPath, ppBack, ppCompare, qText, qAst, qBack, model,
                   query, compiled, partial_map, alias_map, projected_paths,
                   recompiled>>

(* The set `remaining` in its iteration order *)
FrameRemainingList == SelectSeq(frame.hash_order, LAMBDA a : a \in frame.remaining)

(* `ready` before the sort of line 211 *)
FrameReady ==
    ReadyAliases(alias_map, frame.root_alias, frame.processed, FrameRemainingList)

(* Lines 185-214: one pass of `while remaining` *)
P2Q_Order ==
    /\ pc = "p2q_ordering"
    /\ frame.remaining # {}
    /\ \E ready_ \in {FrameReady} :
        IF ~IsOk(ready_)
        THEN /\ statement' = ready_
             /\ pc' = "p2q_done"
             /\ frame' = frame
        ELSE IF HasEmptyPathList(alias_map, ready_.value)
        THEN /\ statement' = Raise("ValueError")
             /\ pc' = "p2q_done"
             /\ frame' = frame
        ELSE /\ \E ready \in {StableSort(ready_.value,
                                         DepthKeys(alias_map, ready_.value))} :
                    frame' = [frame EXCEPT
                                 !.sorted_aliases = @ \o ready,
                                 !.remaining = @ \ Range(ready),
                                 !.processed = @ \cup Range(ready)]
             /\ pc' = "p2q_ordering"
             /\ statement' = statement
    /\ UNCHANGED <<ppText, ppPath, ppBack, ppCompare, qText, qAst, qBack, model,
                   query, compiled, partial_map, alias_map, projected_paths,
                   recompiled>>

(* The statement built from the joins and the projections *)
FrameStatement(joins, projections) ==
    IF ~IsOk(joins) THEN joins
    ELSE IF ~IsOk(projections) THEN projections
    ELSE Ok(<<QueryStatement(projections.value,
                  FromClause(<<Entity(Get(alias_map, frame.root_alias)[1].start_type,
                                      frame.root_alias)>>,
                             joins.value),
                  None)>>)

(* Lines 216-277: the joins in the order found, the projections, return *)
P2Q_Emit ==
    /\ pc = "p2q_ordering"
    /\ frame.remaining = {}
    /\ statement' = FrameStatement(
                        BuildJoins(alias_map, model,
                            <<[k |-> frame.root_alias,
                               v |-> Get(alias_map, frame.root_alias)[1].start_type]>>,
                            frame.sorted_aliases, <<>>),
                        BuildProjections(alias_map, projected_paths))
    /\ pc' = "p2q_done"
    /\ UNCHANGED <<ppText, ppPath, ppBack, ppCompare, frame, qText, qAst, qBack,
                   model, query, compiled, partial_map, alias_map,
                   projected_paths, recompiled>>

NextOrder == Reconstruct \/ UseSeed \/ P2Q_Enter \/ P2Q_Order \/ P2Q_Emit

SpecOrder == InitReverse /\ [][NextOrder]_vars

(* The pass-by-pass call ends with what path2query returns or raises *)
OrderStepsAgree ==
    pc = "p2q_done" /\ alias_map # <<>> /\ RootCandidates(alias_map) # <<>>
        => statement = path2query(alias_map, projected_paths, model,
                                  frame.hash_order)

(* The remaining aliases that have a joinable path: a path all of whose    *)
(* prefix aliases are processed                                            *)
StepCandidates ==
    {a \in frame.remaining :
        \E p_ \in Range(Get(alias_map, a)) :
            PathDeps(alias_map, frame.root_alias, a, p_) \subseteq frame.processed}

(* The dependencies of an alias that are not processed yet *)
StepPending(a) == Dependencies(alias_map, frame.root_alias, a) \ frame.processed

(* (pending dependencies that are candidates themselves, pending           *)
(* dependencies, shallowest path length)                                   *)
StepScore(a) ==
    <<Cardinality(StepPending(a) \cap StepCandidates),
      Cardinality(StepPending(a)),
      MinDepth(Get(alias_map, a))>>

(* The inputs of test_slide_4, completed by _reconstruct_alias_map *)
GordonSlide4 ==
    /\ model = GordonModel
    /\ projected_paths = <<GordonPos, GordonMode>>
    /\ partial_map = <<GordonAirFrame, GordonNavigationSystem>>
    /\ alias_map = _reconstruct_alias_map(model, projected_paths, partial_map)

(* C20: in a pass of the ordering loop in which no remaining alias has all *)
(* its dependencies processed but some remaining alias has a joinable      *)
(* path, every alias ordered in that pass has a joinable path and has the  *)
(* minimal score; with NavigationSystem and Observe depending on each      *)
(* other (test_slide_4) the order is NavigationSystem, Observe, AirFrame.  *)
C20_CycleFallbackOrder ==
    /\ [][pc = "p2q_ordering" /\ pc' = "p2q_ordering"
              /\ (\A a \in frame.remaining : StepPending(a) # {})
              /\ StepCandidates # {}
          => \A a \in frame.remaining \ frame'.remaining :
                 /\ a \in StepCandidates
                 /\ \A b \in StepCandidates :
                        ~TupleLess(StepScore(b), StepScore(a))]_vars
    /\ [](pc \in {"p2q_ordering", "p2q_done"} /\ GordonSlide4
              /\ frame.remaining = {}
          => frame.sorted_aliases = <<"NavigationSystem", "Observe", "AirFrame">>)

(* The ordering loop has run to its end on the inputs of test_slide_4 *)
C20_Witness ==
    /\ pc = "p2q_done"
    /\ GordonSlide4
    /\ frame.remaining = {}
    /\ Len(frame.sorted_aliases) = 3

(* The minimum path depth of the i-th alias of a list *)
DepthAt(aliases, i) == MinDepth(Get(alias_map, aliases[i]))

HopsAliased(alias_map_) ==
    /\ alias_map_ # <<>>
    /\ RootCandidates(alias_map_) # <<>>
    /\ \A i \in 1..Len(alias_map_) :
           /\ alias_map_[i].v # <<>>
           /\ alias_map_[i].k # RootCandidates(alias_map_)[1]
                  => \A j \in 1..Len(alias_map_[i].v) :
                         /\ alias_map_[i].v[j].resolutions # <<>>
                         /\ FindAlias(alias_map_,
                                ButLast(alias_map_[i].v[j].resolutions)) # None

(* The condition the claim names for one path of an alias *)
HopCondition(alias_map_, alias, path_) ==
    LET last_hop == path_.resolutions[Len(path_.resolutions)]
        prefix_alias == FindAlias(alias_map_, ButLast(path_.resolutions))
    IN  IF IsEntityResolution(last_hop)
        THEN Equivalence(Reference(prefix_alias, last_hop.rolename),
                         Reference(alias, None))
        ELSE Equivalence(Reference(alias, last_hop.rolename),
                         Reference(prefix_alias, None))

(* C22: for each path of a non-root alias path2query emits, in the Join of *)
(* the alias, prefixAlias.rolename = alias for a last hop that is an       *)
(* entity hop and alias.rolename = prefixAlias for an association hop, the *)
(* second operand an identity reference; for an association hop the Join's *)
(* entity type is the hop's association name.                              *)
C22_HopOrientation ==
    pc = "reversed" /\ HopsAliased(alias_map)
        => /\ IsOk(statement)
           /\ \A a \in KeySet(alias_map) \ {RootCandidates(alias_map)[1]} :
                  \E i \in 1..Len(EmittedJoins) :
                      /\ EmittedJoins[i].target.alias = a
                      /\ \A j \in 1..Len(Get(alias_map, a)) :
                             LET p_ == Get(alias_map, a)[j]
                             IN  /\ HopCondition(alias_map, a, p_)
                                        \in Range(EmittedJoins[i].on)
                                 /\ IsAssociationResolution(
                                        p_.resolutions[Len(p_.resolutions)])
                                        => EmittedJoins[i].target.name
                                               = p_.resolutions[Len(p_.resolutions)]
                                                     .association_name

(* The type the returned statement gives an alias: the root type or the    *)
(* type of the alias's Join; None for an alias it does not have            *)
StatementType(a) ==
    IF a = RootAliasOf(statement.value[1])
    THEN statement.value[1].from_clause.entities[1].name
    ELSE IF \E i \in 1..Len(EmittedJoins) : EmittedJoins[i].target.alias = a
    THEN EmittedJoins[CHOOSE i \in 1..Len(EmittedJoins) :
                          EmittedJoins[i].target.alias = a].target.name
    ELSE None

(* The object of the first schema fact on (source_type, rolename), cut at  *)
(* its first period; the rolename when there is none                       *)
LookedUpType(source_type, rolename) ==
    LET hits == {i \in 1..Len(model) : /\ model[i].subject = source_type
                                       /\ model[i].rolename = rolename}
    IN  IF hits = {} THEN rolename
        ELSE LET obj == model[CHOOSE i \in hits : \A k \in hits : i <= k].object
                 dots == {n \in 1..Len(obj) : CharAt(obj, n) = "."}
             IN  IF dots = {} THEN obj
                 ELSE SubSeq(obj, 1, (CHOOSE n \in dots : \A m \in dots : n <= m) - 1)

(* Some non-root alias has a path that ends in an entity hop *)
HasEntityHopAlias(alias_map_) ==
    \E i \in 1..Len(alias_map_) :
        /\ alias_map_[i].k # RootCandidates(alias_map_)[1]
        /\ \E j \in 1..Len(alias_map_[i].v) :
               IsEntityResolution(alias_map_[i].v[j].resolutions[
                                      Len(alias_map_[i].v[j].resolutions)])

(* C26: for an alias reached by an entity hop path2query returns a         *)
(* statement, and the type of the alias's Join is the object of the first  *)
(* schema fact on (type of the prefix alias, rolename), or the rolename    *)
(* itself when no fact matches, no schema is given or the prefix alias's   *)
(* type is unknown.                                                        *)
C26_EntityHopTypeResolved ==
    pc = "reversed" /\ HopsAliased(alias_map) /\ HasEntityHopAlias(alias_map)
        => /\ IsOk(statement)
           /\ \A i \in 1..Len(EmittedJoins) :
                  LET paths == Get(alias_map, EmittedJoins[i].target.alias)
                      hops == paths[1].resolutions
                  IN  Len(paths) = 1 /\ IsEntityResolution(hops[Len(hops)])
                          => EmittedJoins[i].target.name
                                 = LookedUpType(
                                       StatementType(FindAlias(alias_map,
                                                               ButLast(hops))),
                                       hops[Len(hops)].rolename)

(* C29: every Join of a statement path2query returns has at least one     *)
(* Equivalence in its ON list, as the join rule of the grammar requires.   *)
C29_JoinsHaveConditions ==
    pc = "reversed" /\ IsOk(statement) /\ statement.value # <<>>
        => \A i \in 1..Len(statement.value[1].from_clause.joins) :
               Len(statement.value[1].from_clause.joins[i].on) >= 1

(* The call runs to its end: path2query is synchronous and single-threaded *)
(* and nothing suspends it between two passes of its loop.                 *)
(* The longest list of terminal paths a map of LoopMaps is completed from *)
MaxLoopTerminals == 1

(* The maps the loop is run on: the hand-written maps and what            *)
(* _reconstruct_alias_map makes of them                                    *)
LoopMaps ==
    PlainSeeds \cup DepthSeeds \cup GordonSeeds
        \cup {_reconstruct_alias_map(<<>>, paths, seed) :
                  paths \in SeqsUpTo(PlainTerminals, MaxLoopTerminals),
                  seed \in PlainSeeds}
        \cup {_reconstruct_alias_map(GordonModel, paths, seed) :
                  paths \in SeqsUpTo(GordonTerminals, MaxLoopTerminals),
                  seed \in GordonSeeds}

(* path2query is called on one of the maps; the loop reads nothing else *)
InitLoop ==
    /\ pc = "alias_map"
    /\ alias_map \in LoopMaps
    /\ model = <<>> /\ projected_paths = <<>> /\ partial_map = Unused
    /\ statement = Unused /\ recompiled = Unused
    /\ IdlePath /\ IdleParser /\ IdleForward

(* Line 185: `while remaining` finds the set empty and the loop is left *)
P2Q_LoopExit ==
    /\ pc = "p2q_ordering"
    /\ frame.remaining = {}
    /\ pc' = "p2q_ordered"
    /\ UNCHANGED <<ppText, ppPath, ppBack, ppCompare, frame, qText, qAst, qBack,
                   model, query, compiled, partial_map, alias_map,
                   projected_paths, statement, recompiled>>

NextLoop == P2Q_Enter \/ P2Q_Order \/ P2Q_LoopExit

SpecOrderFair == InitLoop /\ [][NextLoop]_vars /\ WF_vars(NextLoop)

(* The map has an alias with a zero-length path and no alias without path *)
LoopInput ==
    IF pc \in {"p2q_ordering", "p2q_ordered", "p2q_done"}
    THEN /\ alias_map # <<>>
         /\ RootCandidates(alias_map) # <<>>
         /\ \A i \in 1..Len(alias_map) : alias_map[i].v # <<>>
    ELSE FALSE

(* C28: for an alias map in which each alias has a path and some alias has *)
(* a zero-length path the ordering loop ends; each pass orders at least    *)
(* one remaining alias (and only remaining ones); at the end every         *)
(* non-root alias is in the order exactly once, cyclic dependencies        *)
(* included.                                                               *)
C28_OrderingLoopTerminates ==
    /\ (pc = "p2q_ordering" /\ LoopInput) ~> (pc = "p2q_ordered")
    /\ [][pc = "p2q_ordering" /\ LoopInput /\ frame.remaining # {}
          => /\ pc' = "p2q_ordering"
             /\ statement' = Unused
             /\ frame'.remaining \subseteq frame.remaining
             /\ frame'.remaining # frame.remaining
             /\ frame'.sorted_aliases
                    = frame.sorted_aliases
                          \o SubSeq(frame'.sorted_aliases,
                                    Len(frame.sorted_aliases) + 1,
                                    Len(frame'.sorted_aliases))
             /\ Len(frame'.sorted_aliases) - Len(frame.sorted_aliases)
                    = Cardinality(frame.remaining \ frame'.remaining)
             /\ Range(frame'.sorted_aliases)
                    = Range(frame.sorted_aliases)
                          \cup (frame.remaining \ frame'.remaining)]_vars
    /\ [](pc \in {"p2q_ordered", "p2q_done"} /\ LoopInput
          => /\ pc = "p2q_ordered"
             /\ frame.remaining = {}
             /\ Range(frame.sorted_aliases)
                    = KeySet(alias_map) \ {frame.root_alias}
             /\ Len(frame.sorted_aliases)
                    = Cardinality(KeySet(alias_map) \ {frame.root_alias}))

(* The loop has ended on a map whose aliases depend on each other *)
C28_Witness ==
    /\ pc = "p2q_ordered"
    /\ LoopInput
    /\ ~AcyclicDependencies(alias_map)
    /\ Len(frame.sorted_aliases) >= 2

(***************************************************************************)
(* SpecHeap: the reverse pipeline on objects.  The caller's containers     *)
(* (the schema list, the terminal path list, the partial map and each of   *)
(* its path lists) are objects of a heap, a sequence indexed by object     *)
(* identity; a dict object holds entries [k, v] with v the identity of a   *)
(* list object.  Every statement of the three functions that writes to a   *)
(* container (update, item assignment, append) writes to the object its    *)
(* variable is bound to.  model, projected_paths, partial_map, alias_map   *)
(* and statement keep the values as they were handed over or returned;     *)
(* frame.heap holds the objects as they are now.                           *)
(***************************************************************************)
(* A new object; its identity is the new length of the heap *)
HeapAlloc(heap_, obj) == Append(heap_, obj)

(* The value of a dict object: its entries with the lists they refer to *)
HeapDict(heap_, ref) ==
    [i \in 1..Len(heap_[ref]) |->
        [k |-> heap_[ref][i].k, v |-> heap_[heap_[ref][i].v]]]

(* The heap when the caller calls _reconstruct_alias_map(model, paths,     *)
(* partial_map); given = FALSE is the call without a partial map (None)    *)
HeapAtCall(partial_map_, paths, model_, given) ==
    [heap |-> <<model_, paths>>
                  \o [i \in 1..Len(partial_map_) |-> partial_map_[i].v]
                  \o (IF given
                      THEN <<[i \in 1..Len(partial_map_) |->
                                 [k |-> partial_map_[i].k, v |-> 2 + i]]>>
                      ELSE <<>>),
     model_ref |-> 1,
     paths_ref |-> 2,
     partial_ref |-> IF given THEN Len(partial_map_) + 3 ELSE 0,
     alias_ref |-> 0,
     ast_ref |-> 0]

InitHeap ==
    /\ pc = "heap_paths"
    /\ \/ /\ model = <<>>
          /\ projected_paths \in SeqsUpTo(PlainTerminals, MaxTerminals)
          /\ partial_map \in PlainSeeds
       \/ /\ model = GordonModel
          /\ projected_paths \in SeqsUpTo(GordonTerminals, MaxTerminals)
          /\ partial_map \in GordonSeeds
    /\ frame \in {HeapAtCall(partial_map, projected_paths, model, given) :
                      given \in IF partial_map = <<>> THEN {FALSE, TRUE}
                                ELSE {TRUE}}
    /\ alias_map = Unused /\ statement = Unused /\ recompiled = Unused
    /\ query = Unused /\ compiled = Unused
    /\ IdlePath /\ IdleParser

(* An alias map that is the caller's partial map itself, not a new dict *)
NewAliasMap_shared(heap_, partial_ref) ==
    IF partial_ref = 0
    THEN [heap |-> HeapAlloc(heap_, <<>>), ref |-> Len(heap_) + 1]
    ELSE [heap |-> heap_, ref |-> partial_ref]

(* alias_map = {} *)
NewAliasMap(heap_, partial_ref) ==
    [heap |-> HeapAlloc(heap_, <<>>), ref |-> Len(heap_) + 1]

(* partial_map = partial_map or {}: None and the empty dict give a new one *)
PartialOrEmpty(heap_, partial_ref) ==
    IF partial_ref # 0 /\ heap_[partial_ref] # <<>>
    THEN [heap |-> heap_, ref |-> partial_ref]
    ELSE [heap |-> HeapAlloc(heap_, <<>>), ref |-> Len(heap_) + 1]

(* target.update(source): the entries of source, lists shared, are put     *)
(* into the dict object target                                             *)
RECURSIVE DictUpdate(_, _, _)
DictUpdate(heap_, target, entries) ==
    IF entries = <<>> THEN heap_
    ELSE DictUpdate([heap_ EXCEPT ![target] = Put(@, Head(entries).k,
                                                  Head(entries).v)],
                    target, Tail(entries))

(* alias_map[alias_name] = [path_obj] for each alias get_or_create_alias   *)
(* creates: a new list object, stored in the dict object alias_map is      *)
(* bound to                                                                *)
RECURSIVE StoreCreated(_, _, _)
StoreCreated(heap_, target, created) ==
    IF created = <<>> THEN heap_
    ELSE StoreCreated(
             [HeapAlloc(heap_, Head(created).v) EXCEPT
                 ![target] = Put(@, Head(created).k, Len(heap_) + 1)],
             target, Tail(created))

(* _reconstruct_alias_map on the heap: [heap, ref] with ref the returned   *)
(* dict.  The aliases created, in order, are the entries the function adds *)
(* after those of the partial map.                                         *)
HeapReconstruct(heap_, model_ref, paths_ref, partial_ref) ==
    LET given == IF partial_ref = 0 THEN <<>> ELSE HeapDict(heap_, partial_ref)
        a == NewAliasMap(heap_, partial_ref)
        p_ == PartialOrEmpty(a.heap, partial_ref)
        updated == DictUpdate(p_.heap, a.ref, p_.heap[p_.ref])
        full == _reconstruct_alias_map(heap_[model_ref], heap_[paths_ref], given)
    IN  [heap |-> StoreCreated(updated, a.ref,
                      SubSeq(full, Len(given) + 1, Len(full))),
         ref |-> a.ref]

(* alias_map = _reconstruct_alias_map(model, paths, partial_map) *)
H_Reconstruct ==
    /\ pc = "heap_paths"
    /\ \E r \in {HeapReconstruct(frame.heap, frame.model_ref, frame.paths_ref,
                                  frame.partial_ref)} :
           /\ frame' = [frame EXCEPT !.heap = r.heap, !.alias_ref = r.ref]
           /\ alias_map' = HeapDict(r.heap, r.ref)
    /\ pc' = "heap_alias_map"
    /\ UNCHANGED <<ppText, ppPath, ppBack, ppCompare, qText, qAst, qBack, model,
                   query, compiled, partial_map, projected_paths, statement,
                   recompiled>>

(* queries = path2query(alias_map, paths, model): every container it       *)
(* writes to (sorted_aliases, remaining, processed, ready, joins,          *)
(* equivalences, projections, the two trackers) is created in the call;    *)
(* the statement it returns is a new object                                *)
H_Path2Query ==
    /\ pc = "heap_alias_map"
    /\ \E hash_order \in HashOrders(HeapDict(frame.heap, frame.alias_ref)) :
           \E st \in {path2query(HeapDict(frame.heap, frame.alias_ref),
                                 frame.heap[frame.paths_ref],
                                 frame.heap[frame.model_ref], hash_order)} :
               /\ statement' = st
               /\ frame' = IF IsOk(st) /\ st.value # <<>>
                           THEN [frame EXCEPT
                                    !.heap = HeapAlloc(@, st.value[1]),
                                    !.ast_ref = Len(frame.heap) + 1]
                           ELSE frame
    /\ pc' = "heap_reversed"
    /\ UNCHANGED <<ppText, ppPath, ppBack, ppCompare, qText, qAst, qBack, model,
                   query, compiled, partial_map, alias_map, projected_paths,
                   recompiled>>

(* query2path(queries[0], model): alias_map, alias_types, the path lists   *)
(* and projected_paths it writes to are created in the call; the pair it   *)
(* returns is a new object                                                 *)
H_Query2Path ==
    /\ pc = "heap_reversed"
    /\ frame.ast_ref # 0
    /\ \E r \in {query2path(frame.heap[frame.ast_ref],
                             frame.heap[frame.model_ref])} :
           /\ recompiled' = r
           /\ frame' = IF IsOk(r)
                       THEN [frame EXCEPT !.heap = HeapAlloc(@, r.value)]
                       ELSE frame
    /\ pc' = "heap_compiled"
    /\ UNCHANGED <<ppText, ppPath, ppBack, ppCompare, qText, qAst, qBack, model,
                   query, compiled, partial_map, alias_map, projected_paths,
                   statement>>

NextHeap == H_Reconstruct \/ H_Path2Query \/ H_Query2Path

SpecHeap == InitHeap /\ [][NextHeap]_vars

(* The returned dict has the entries _reconstruct_alias_map computes *)
HeapAgrees ==
    pc = "heap_alias_map"
        => alias_map = _reconstruct_alias_map(model, projected_paths, partial_map)

(* C27: after _reconstruct_alias_map the partial map and its path lists    *)
(* are as the caller handed them over; after path2query so are the alias   *)
(* map, every path list in it and the terminal path list; after query2path *)
(* so are the statement and the schema model.                              *)
C27_ArgumentsUnchanged ==
    pc \in {"heap_alias_map", "heap_reversed", "heap_compiled"}
        => /\ frame.partial_ref # 0
                  => HeapDict(frame.heap, frame.partial_ref) = partial_map
           /\ frame.heap[frame.paths_ref] = projected_paths
           /\ frame.heap[frame.model_ref] = model
           /\ pc \in {"heap_reversed", "heap_compiled"}
                  => HeapDict(frame.heap, frame.alias_ref) = alias_map
           /\ pc = "heap_compiled"
                  => frame.heap[frame.ast_ref] = statement.value[1]

(* The three calls have run on a partial map that names an alias, with an  *)
(* alias created by _reconstruct_alias_map and a statement compiled again  *)
C27_Witness ==
    /\ pc = "heap_compiled"
    /\ frame.partial_ref # 0
    /\ partial_map # <<>>
    /\ Len(alias_map) > Len(partial_map)
    /\ IsOk(recompiled)

(* The aliases of the returned map that the partial map does not have *)
CreatedAliases == KeySet(alias_map) \ KeySet(partial_map)

(* C30: in the map _reconstruct_alias_map returns every proper prefix of   *)
(* every terminal path, the zero-length path included, is a path of some   *)
(* alias; every alias of the partial map has exactly the paths it was      *)
(* given; every created alias has a name that no other alias has and holds *)
(* exactly one path.                                                       *)
C30_ReconstructedMap ==
    pc = "heap_alias_map"
        => /\ \A i \in 1..Len(projected_paths) :
                  \A n \in 0..(Len(projected_paths[i].resolutions) - 1) :
                      \E j \in 1..Len(alias_map) :
                          \E k \in 1..Len(alias_map[j].v) :
                              alias_map[j].v[k]
                                  = ParticipantPath(
                                        projected_paths[i].start_type,
                                        Prefix(projected_paths[i].resolutions, n))
           /\ \A i \in 1..Len(partial_map) :
                  \A j \in 1..Len(alias_map) :
                      alias_map[j].k = partial_map[i].k
                          => alias_map[j].v = partial_map[i].v
           /\ KeySet(partial_map) \subseteq KeySet(alias_map)
           /\ \A i, j \in 1..Len(alias_map) :
                  alias_map[i].k = alias_map[j].k => i = j
           /\ \A j \in 1..Len(alias_map) :
                  alias_map[j].k \in CreatedAliases => Len(alias_map[j].v) = 1

(* A map completed from a partial map: an alias was created under a name   *)
(* with a counter because its type name was taken, and a terminal path     *)
(* had a prefix of two hops                                                *)
C30_Witness ==
    /\ pc = "heap_alias_map"
    /\ partial_map # <<>>
    /\ \E j \in 1..Len(alias_map) :
           /\ alias_map[j].k \in CreatedAliases
           /\ alias_map[j].v[1].resolutions # <<>>
           /\ LET res_ == alias_map[j].v[1].resolutions
              IN  /\ IsAssociationResolution(res_[Len(res_)])
                  /\ alias_map[j].k # res_[Len(res_)].association_name
    /\ \E i \in 1..Len(projected_paths) :
           Len(projected_paths[i].resolutions) >= 3

(***************************************************************************)
(* The whole tool chain: any of the pipelines.                             *)
(***************************************************************************)
Init ==
    InitPath \/ InitParser \/ InitForward \/ InitCompile \/ InitReverse
        \/ InitLoop \/ InitHeap

Next ==
    NextPath \/ NextParser \/ NextForward \/ NextCompile \/ NextReverse
        \/ NextOrder \/ NextLoop \/ NextHeap

Spec == Init /\ [][Next]_vars

====
